---- MODULE Spec2Model ----
(***************************************************************************)
(* A model of the wikilon runtime value engine (src/wikrt-old/wikrt.c) and *)
(* of its text-to-block parser (src/wikilon-runtime/wikrt_parse.c).        *)
(*                                                                         *)
(* The context is modelled as the C struct is laid out: one array of       *)
(* machine words (heap) holding both semi-spaces, the allocation pointers  *)
(* and the root registers.  A value is a machine word: three low tag bits  *)
(* over a cell-aligned byte address or over a small-integer payload.       *)
(* Every C function f(cx, ...) is an operator f(c, ...) from a context     *)
(* record to the context record after the call.  A fatal exit of the       *)
(* process (abort(), a failed assert) is recorded in the field `abort`;    *)
(* nothing runs after it.                                                  *)
(***************************************************************************)
EXTENDS Integers, Sequences, FiniteSets, TLC

VARIABLES
    cx,      \* the wikrt_cx structure (arena included)
    p,       \* the wikrt_parse_state of the running wikrt_text_to_block
    rbuf,    \* the parser's read buffer: codepoints read and not yet stepped
    pcp,     \* position of the wikrt_text_to_block call
    res,     \* what the last API call returned / did (see each action)
    g        \* ghost record: facts about the start of the run, for the claims

vars == <<cx, p, rbuf, pcp, res, g>>

----------------------------------------------------------------------------
(* Machine words.                                                          *)

\* sizeof(wikrt_val): the 32-bit build.
WIKRT_VALSIZE == 4
\* A cell is two words.
WIKRT_CELLSIZE == 2 * WIKRT_VALSIZE

\* Low-bit tags.  PL = P+1, PR = P+2, UL = U+1, UR = U+2; P and U are the
\* tags with (3 & v) = 1; the shallow values (I, U, UL, UR) have bit 4 set.
WIKRT_O  == 0
WIKRT_P  == 1
WIKRT_PL == 1 + WIKRT_P
WIKRT_PR == 2 + WIKRT_P
WIKRT_I  == 4
WIKRT_U  == 1 + WIKRT_I
WIKRT_UL == 1 + WIKRT_U
WIKRT_UR == 2 + WIKRT_U

wikrt_vtag(v)  == v % 8
wikrt_vaddr(v) == v - (v % 8)
wikrt_tag_addr(tag, addr) == addr + tag

WIKRT_UNIT     == wikrt_tag_addr(WIKRT_U, 0)
WIKRT_UNIT_INL == wikrt_tag_addr(WIKRT_UL, 0)
WIKRT_UNIT_INR == wikrt_tag_addr(WIKRT_UR, 0)
\* the sentinel left by trash of a value without substructure
WIKRT_NORMAL_TRASH == 13

wikrt_p(v)  == wikrt_vtag(v) = WIKRT_P
wikrt_pl(v) == wikrt_vtag(v) = WIKRT_PL
wikrt_pr(v) == wikrt_vtag(v) = WIKRT_PR
wikrt_o(v)  == wikrt_vtag(v) = WIKRT_O
wikrt_smallint(v) == wikrt_vtag(v) = WIKRT_I
wikrt_i2v(n) == (n * 8) + WIKRT_I
wikrt_v2i(v) == (v - WIKRT_I) \div 8
WIKRT_IZERO == wikrt_i2v(0)

\* I, U, UL, UR: values that own no cell.
wikrt_copy_shallow(v) == wikrt_vtag(v) >= 4

\* round a byte count up to whole cells
wikrt_cellbuff(n) == ((n + WIKRT_CELLSIZE - 1) \div WIKRT_CELLSIZE) * WIKRT_CELLSIZE

LOBYTE(w) == w % 256

RECURSIVE BitOr(_, _)
BitOr(a, b) ==
    IF a = 0 THEN b
    ELSE IF b = 0 THEN a
    ELSE (IF (a % 2 = 1) \/ (b % 2 = 1) THEN 1 ELSE 0) + 2 * BitOr(a \div 2, b \div 2)

RECURSIVE BitAnd(_, _)
BitAnd(a, b) ==
    IF a = 0 \/ b = 0 THEN 0
    ELSE (IF (a % 2 = 1) /\ (b % 2 = 1) THEN 1 ELSE 0) + 2 * BitAnd(a \div 2, b \div 2)

\* Object tags (low byte of an object's first word).
WIKRT_OTAG_DEEPSUM == 83
WIKRT_OTAG_BLOCK   == 91
WIKRT_OTAG_OPVAL   == 39
WIKRT_OTAG_OPTOK   == 123
WIKRT_OTAG_SEAL    == 36
WIKRT_OTAG_SEAL_SM == 58
WIKRT_OTAG_ARRAY   == 86
WIKRT_OTAG_BINARY  == 56
WIKRT_OTAG_UTF8    == 34
WIKRT_OTAG_TRASH   == 95
WIKRT_OTAG_PEND    == 126
\* the parser's text chunk object (wikrt_flush_parse_text)
WIKRT_OTAG_TEXT    == 84

\* Block header flags, above the tag byte.
WIKRT_BLOCK_RELEVANT == 256
WIKRT_BLOCK_AFFINE   == 2 * WIKRT_BLOCK_RELEVANT
WIKRT_BLOCK_LAZY     == 2 * WIKRT_BLOCK_AFFINE
WIKRT_BLOCK_FORK     == 2 * WIKRT_BLOCK_LAZY
WIKRT_OPVAL_LAZYKF   == 256

\* Substructure summary bits.
WIKRT_SS_REL  == 1
WIKRT_SS_AFF  == 2 * WIKRT_SS_REL
WIKRT_SS_PEND == 2 * WIKRT_SS_AFF

wikrt_otag_block(w)   == LOBYTE(w) = WIKRT_OTAG_BLOCK
wikrt_otag_deepsum(w) == LOBYTE(w) = WIKRT_OTAG_DEEPSUM
wikrt_otag_binary(w)  == LOBYTE(w) = WIKRT_OTAG_BINARY
wikrt_otag_utf8(w)    == LOBYTE(w) = WIKRT_OTAG_UTF8
wikrt_opval_hides_ss(w) == BitAnd(w, WIKRT_OPVAL_LAZYKF) # 0

\* ss |= the AFFINE / RELEVANT bits of a block (or trash) header
wikrt_block_ss(otag) ==
    (IF BitAnd(otag, WIKRT_BLOCK_RELEVANT) # 0 THEN WIKRT_SS_REL ELSE 0)
  + (IF BitAnd(otag, WIKRT_BLOCK_AFFINE) # 0 THEN WIKRT_SS_AFF ELSE 0)
wikrt_ss_copyable(ss)  == BitAnd(ss, WIKRT_SS_AFF) = 0
wikrt_ss_droppable(ss) == BitAnd(ss, WIKRT_SS_REL) = 0
wikrt_ss_to_block_flags(ss) ==
    (IF BitAnd(ss, WIKRT_SS_REL) # 0 THEN WIKRT_BLOCK_RELEVANT ELSE 0)
  + (IF BitAnd(ss, WIKRT_SS_AFF) # 0 THEN WIKRT_BLOCK_AFFINE ELSE 0)

----------------------------------------------------------------------------
(* The arena.                                                              *)

\* bytes of one semi-space, in cells
SizeCells == 24
cx_size == SizeCells * WIKRT_CELLSIZE
\* the context header occupies the bytes below the first arena
WIKRT_CX_ALIGN == WIKRT_CELLSIZE
cx_arena1 == WIKRT_CX_ALIGN
cx_arena2 == cx_arena1 + cx_size
cx_last   == cx_arena2 + cx_size
HeapWords == cx_last \div WIKRT_VALSIZE

rd(c, a) == c.heap[(a \div WIKRT_VALSIZE) + 1]
wr(c, a, w) == [c EXCEPT !.heap[(a \div WIKRT_VALSIZE) + 1] = w]

\* first and second word of the cell or object a value refers to
Fst(c, v) == rd(c, wikrt_vaddr(v))
Snd(c, v) == rd(c, wikrt_vaddr(v) + WIKRT_VALSIZE)

WIKRT_REG_VAL_INIT == WIKRT_UNIT
WIKRT_REG_PC_INIT  == WIKRT_UNIT
WIKRT_REG_CC_INIT  == WIKRT_UNIT
WIKRT_REG_TXN_INIT == WIKRT_UNIT

\* wikrt_cx_create
cx_create ==
    [ heap  |-> [i \in 1..HeapWords |-> 0],
      mem   |-> cx_arena2,
      alloc |-> cx_arena2,
      cap   |-> cx_arena2,
      ssp   |-> cx_arena1,
      val   |-> WIKRT_REG_VAL_INIT,
      pc    |-> WIKRT_REG_PC_INIT,
      cc    |-> WIKRT_REG_CC_INIT,
      txn   |-> WIKRT_REG_TXN_INIT,
      ecode |-> "OK",
      compaction_count |-> 0,
      compaction_size  |-> 0,
      bytes_compacted  |-> 0,
      bytes_collected  |-> 0,
      largest_size     |-> 0,
      ulr   |-> "INL",
      sum   |-> "INL",
      ss    |-> 0,
      rv    |-> 0,
      cs    |-> 0,
      buf   |-> << >>,
      ub    |-> 0,
      abort |-> "" ]

Aborted(c) == c.abort # ""
Abort(c, why) == IF Aborted(c) THEN c ELSE [c EXCEPT !.abort = why]

wikrt_has_error(c) == c.ecode # "OK"

\* a wikrt_set_error that keeps the last error code
wikrt_set_error_last(c, e) == IF e # "OK" THEN [c EXCEPT !.ecode = e] ELSE c

\* wikrt_set_error: the first error code is kept
wikrt_set_error(c, e) ==
    IF Aborted(c) THEN c
    ELSE IF ~wikrt_has_error(c) /\ e # "OK" THEN [c EXCEPT !.ecode = e] ELSE c

wikrt_memory_volume(c) == c.alloc - c.mem
wikrt_mem_available(c, sz) == (c.cap - c.alloc) >= sz

\* bytes inside the word array (little-endian), for binaries and tokens
Pow256(k) == CASE k = 0 -> 1 [] k = 1 -> 256 [] k = 2 -> 65536 [] OTHER -> 16777216
\* byte b at weight k of a word; a word is kept as the signed 32-bit
\* integer of the same bits, so a top byte of 128 or more weighs negative
ByteAt(b, k) == IF k = 16777216 /\ b >= 128 THEN (b - 256) * k ELSE b * k
RdByte(c, a) == (rd(c, a - (a % WIKRT_VALSIZE)) \div Pow256(a % WIKRT_VALSIZE)) % 256
WrByte(c, a, b) ==
    LET wa == a - (a % WIKRT_VALSIZE)
        k  == Pow256(a % WIKRT_VALSIZE)
        w  == rd(c, wa)
    IN wr(c, wa, w - ByteAt((w \div k) % 256, k) + ByteAt(b, k))

\* memcpy(dst, src, n) inside the arena
RECURSIVE MemCpy(_, _, _, _)
MemCpy(c, dst, src, n) ==
    IF n = 0 THEN c ELSE MemCpy(WrByte(c, dst, RdByte(c, src)), dst + 1, src + 1, n - 1)

\* memcpy(dst, bytes, n) from a C buffer (a sequence of bytes)
RECURSIVE MemPut(_, _, _)
MemPut(c, dst, bytes) ==
    IF bytes = <<>> THEN c ELSE MemPut(WrByte(c, dst, Head(bytes)), dst + 1, Tail(bytes))

\* the bytes a..a+n-1 as a sequence
MemGet(c, a, n) == [i \in 1..n |-> RdByte(c, a + i - 1)]

\* wikrt_alloc_r: bump allocation; the address returned is the old c.alloc
wikrt_alloc_r(c, sz) == [c EXCEPT !.alloc = @ + sz]

\* wikrt_alloc_cellval_r: a fresh cell (fst, snd); its address is the old c.alloc
wikrt_alloc_cellval_r(c, fst, snd) ==
    wr(wr(wikrt_alloc_r(c, WIKRT_CELLSIZE), c.alloc, fst), c.alloc + WIKRT_VALSIZE, snd)

----------------------------------------------------------------------------
(* Heap walkers: wikrt_vsize, wikrt_copy_rs, wikrt_drop_sv.  The objects   *)
(* the parser writes, OPTOK (header, bytes) and TEXT (header, next, sizes, *)
(* buffer), have no case in the switch of any of the three: a walk that    *)
(* meets one of them ends in the default case, the abort.                  *)

\* (NULL != ss) && wikrt_opval_hides_ss(*pv): the test both walks make on
\* an OPVAL header pv0 before they hide what it holds from the summary
HideSS_never(sson, pv0) == FALSE
HideSS(sson, pv0) == sson /\ wikrt_opval_hides_ss(pv0)

\* wikrt_add_size_task / wikrt_add_drop_task: push unless the value is shallow
AddTask(stk, v) == IF wikrt_copy_shallow(v) THEN stk ELSE Append(stk, v)

RECURSIVE AddTasks(_, _, _, _)
\* push the elemct array slots starting at address a
AddTasks(c, stk, a, elemct) ==
    IF elemct = 0 THEN stk
    ELSE AddTasks(c, AddTask(stk, rd(c, a)), a + WIKRT_VALSIZE, elemct - 1)

SimpleOtags == { WIKRT_OTAG_TRASH, WIKRT_OTAG_BLOCK, WIKRT_OTAG_OPVAL, WIKRT_OTAG_UTF8,
                 WIKRT_OTAG_PEND, WIKRT_OTAG_SEAL_SM, WIKRT_OTAG_DEEPSUM }

\* wikrt_vsize: the loop.  The result is the byte count, or -1 when the
\* walk reaches the unrecognized-tag abort.
RECURSIVE VsizeLoop(_, _, _)
VsizeLoop(c, stk, result) ==
    IF stk = <<>> THEN result
    ELSE
      LET v    == stk[Len(stk)]
          s    == SubSeq(stk, 1, Len(stk) - 1)
          a    == wikrt_vaddr(v)
          pv0  == rd(c, a)
          pv1  == rd(c, a + WIKRT_VALSIZE)
          pv2  == rd(c, a + 2 * WIKRT_VALSIZE)
          pv3  == rd(c, a + 3 * WIKRT_VALSIZE)
      IN IF wikrt_vtag(v) # WIKRT_O
         THEN VsizeLoop(c, AddTask(AddTask(s, pv0), pv1), result + WIKRT_CELLSIZE)
         ELSE IF LOBYTE(pv0) \in SimpleOtags
         THEN VsizeLoop(c, AddTask(s, pv1), result + WIKRT_CELLSIZE)
         ELSE IF LOBYTE(pv0) = WIKRT_OTAG_SEAL
         THEN VsizeLoop(c, AddTask(s, pv1),
                        result + wikrt_cellbuff(WIKRT_CELLSIZE + (pv0 \div 256)))
         ELSE IF LOBYTE(pv0) = WIKRT_OTAG_BINARY
         THEN VsizeLoop(c, AddTask(s, pv1),
                        result + (2 * WIKRT_CELLSIZE) + wikrt_cellbuff(pv2))
         ELSE IF LOBYTE(pv0) = WIKRT_OTAG_ARRAY
         THEN VsizeLoop(c, AddTask(AddTasks(c, s, pv3, pv2), pv1),
                        result + (2 * WIKRT_CELLSIZE) + wikrt_cellbuff(pv2 * WIKRT_VALSIZE))
         ELSE -1

wikrt_vsize(c, v0) == VsizeLoop(c, AddTask(<<>>, v0), 0)

\* wikrt_drop_sv.  The result is the summary: a set of bits in 0..7, or -1
\* when the walk reaches the unrecognized-tag abort.  sson is (NULL != ss).
RECURSIVE DropLoop(_, _, _, _)
DropLoop(c, stk, sson, ss) ==
    IF stk = <<>> THEN ss
    ELSE
      LET v    == stk[Len(stk)]
          s    == SubSeq(stk, 1, Len(stk) - 1)
          a    == wikrt_vaddr(v)
          pv0  == rd(c, a)
          pv1  == rd(c, a + WIKRT_VALSIZE)
          pv2  == rd(c, a + 2 * WIKRT_VALSIZE)
          pv3  == rd(c, a + 3 * WIKRT_VALSIZE)
          tg   == LOBYTE(pv0)
      IN IF wikrt_vtag(v) # WIKRT_O
         THEN DropLoop(c, AddTask(AddTask(s, pv0), pv1), sson, ss)
         ELSE IF tg \in { WIKRT_OTAG_SEAL, WIKRT_OTAG_SEAL_SM, WIKRT_OTAG_UTF8,
                          WIKRT_OTAG_BINARY, WIKRT_OTAG_DEEPSUM }
         THEN DropLoop(c, AddTask(s, pv1), sson, ss)
         ELSE IF tg = WIKRT_OTAG_PEND
         THEN DropLoop(c, AddTask(s, pv1), sson,
                       IF sson THEN BitOr(ss, WIKRT_SS_PEND) ELSE ss)
         ELSE IF tg \in { WIKRT_OTAG_TRASH, WIKRT_OTAG_BLOCK }
         THEN DropLoop(c, AddTask(s, pv1), sson,
                       IF sson THEN BitOr(ss, wikrt_block_ss(pv0)) ELSE ss)
         ELSE IF tg = WIKRT_OTAG_OPVAL
         THEN IF HideSS(sson, pv0)
              THEN \* wikrt_drop_sv(cx, s, pv[1], NULL): the nested walk
                   \* runs to the end with the summary hidden
                   LET inner == DropLoop(c, AddTask(<<>>, pv1), FALSE, 0)
                   IN IF inner = -1 THEN -1 ELSE DropLoop(c, s, sson, ss)
              ELSE DropLoop(c, AddTask(s, pv1), sson, ss)
         ELSE IF tg = WIKRT_OTAG_ARRAY
         THEN DropLoop(c, AddTask(AddTasks(c, s, pv3, pv2), pv1), sson, ss)
         ELSE -1

wikrt_drop_sv(c, v0, sson) == DropLoop(c, AddTask(<<>>, v0), sson, 0)

\* wikrt_drop_v: the walk only reads; an unrecognized tag aborts
wikrt_drop_v(c, v) ==
    IF Aborted(c) THEN c
    ELSE IF wikrt_drop_sv(c, v, FALSE) = -1 THEN Abort(c, "drop_sv: unrecognized tag") ELSE c

\* A call of one modelled function from another goes through Apply, the
\* table of the functions by name (defined after the last of them).  The
\* out-parameters and the return value of a C function are fields of the
\* context record: sum (wikrt_sum_tag* lr), ss (wikrt_ss* ss), rv (the value
\* returned, or *rval of the copy) and cs (the task stack pointer of the
\* copy loop).
RECURSIVE Apply(_, _)
Op(name, arg) == [name |-> name, arg |-> arg]
Do(c, name) == Apply(c, Op(name, 0))
DoA(c, name, arg) == Apply(c, Op(name, arg))

\* A destination of the copy is the byte address of a word, or REG for
\* *rval, which is not in the arena.
REG == -1
Deref(c, dst) == IF dst = REG THEN c.rv ELSE rd(c, dst)
Store(c, dst, v) == IF dst = REG THEN [c EXCEPT !.rv = v] ELSE wr(c, dst, v)

\* a task pushed twice
wikrt_add_copy_task_twice(c, v, a) ==
    IF wikrt_copy_shallow(v) THEN wr(c, a, v)
    ELSE [wr(wr(wr(c, a, v), c.cs - WIKRT_VALSIZE, a), c.cs - (2 * WIKRT_VALSIZE), a)
            EXCEPT !.cs = c.cs - (2 * WIKRT_VALSIZE)]

\* wikrt_add_copy_task: *a = v, and a is pushed unless v is shallow
wikrt_add_copy_task(c, v, a) ==
    IF wikrt_copy_shallow(v) THEN wr(c, a, v)
    ELSE [wr(wr(c, a, v), c.cs - WIKRT_VALSIZE, a) EXCEPT !.cs = c.cs - WIKRT_VALSIZE]

\* wikrt_cpv: copy word ix of the source object pv into addr + ix words
wikrt_cpv(c, pva, addr, ix) ==
    wikrt_add_copy_task(c, rd(c, pva + (ix * WIKRT_VALSIZE)), addr + (ix * WIKRT_VALSIZE))

RECURSIVE CpvArray(_, _, _, _, _)
CpvArray(c, parray, buff, ii, elemct) ==
    IF ii >= elemct THEN c
    ELSE CpvArray(wikrt_cpv(c, parray, buff, ii), parray, buff, ii + 1, elemct)

\* ss |= bits, when a summary is wanted
AddSS(c, sson, bits) == IF sson THEN [c EXCEPT !.ss = BitOr(@, bits)] ELSE c

\* (tag, val) objects: one cell at addr, header pv0 copied, value queued
CopyTagVal(c, dst, pva, addr, pv0) ==
    wikrt_cpv(Store(Store(wikrt_alloc_r(c, WIKRT_CELLSIZE), dst,
                          wikrt_tag_addr(WIKRT_O, addr)), addr, pv0),
              pva, addr, 1)

\* header of a binary or an array at hdr, over the buffer at buff
CopyBuffHdr(c, dst, pva, hdr, buff, pv0, pv2) ==
    Store(wikrt_cpv(Store(Store(Store(wikrt_alloc_r(c, 2 * WIKRT_CELLSIZE), hdr, pv0),
                                hdr + 2 * WIKRT_VALSIZE, pv2),
                          hdr + 3 * WIKRT_VALSIZE, buff),
                    pva, hdr, 1),
          dst, wikrt_tag_addr(WIKRT_O, hdr))

RECURSIVE wikrt_copy_rs(_, _, _, _)
RECURSIVE CopyLoop(_, _, _, _)

\* the body of the do-while loop of wikrt_copy_rs: one object is copied
CopyObj(c, sson, dst) ==
    LET v    == Deref(c, dst)
        tag  == wikrt_vtag(v)
        pva  == wikrt_vaddr(v)
        pv0  == rd(c, pva)
        pv1  == rd(c, pva + WIKRT_VALSIZE)
        pv2  == rd(c, pva + 2 * WIKRT_VALSIZE)
        pv3  == rd(c, pva + 3 * WIKRT_VALSIZE)
        tg   == LOBYTE(pv0)
        addr == c.alloc
    IN IF tag # WIKRT_O
       THEN wikrt_cpv(wikrt_cpv(Store(wikrt_alloc_r(c, WIKRT_CELLSIZE), dst,
                                      wikrt_tag_addr(tag, addr)),
                                pva, addr, 0), pva, addr, 1)
       ELSE IF tg \in { WIKRT_OTAG_UTF8, WIKRT_OTAG_SEAL_SM, WIKRT_OTAG_DEEPSUM }
       THEN CopyTagVal(c, dst, pva, addr, pv0)
       ELSE IF tg = WIKRT_OTAG_PEND
       THEN CopyTagVal(AddSS(c, sson, WIKRT_SS_PEND), dst, pva, addr, pv0)
       ELSE IF tg \in { WIKRT_OTAG_TRASH, WIKRT_OTAG_BLOCK }
       THEN CopyTagVal(AddSS(c, sson, wikrt_block_ss(pv0)), dst, pva, addr, pv0)
       ELSE IF tg = WIKRT_OTAG_OPVAL
       THEN IF HideSS(sson, pv0)
            THEN \* the contained value is copied by a nested call with ss = NULL
                 wikrt_copy_rs(Store(Store(Store(wikrt_alloc_r(c, WIKRT_CELLSIZE), dst,
                                                 wikrt_tag_addr(WIKRT_O, addr)),
                                           addr, pv0),
                                     addr + WIKRT_VALSIZE, pv1),
                               FALSE, c.cs, addr + WIKRT_VALSIZE)
            ELSE CopyTagVal(c, dst, pva, addr, pv0)
       ELSE IF tg = WIKRT_OTAG_SEAL
       THEN wikrt_cpv(MemCpy(Store(wikrt_alloc_r(c, wikrt_cellbuff(WIKRT_CELLSIZE + (pv0 \div 256))),
                                   dst, wikrt_tag_addr(WIKRT_O, addr)),
                             addr, pva, WIKRT_CELLSIZE + (pv0 \div 256)),
                      pva, addr, 1)
       ELSE IF tg = WIKRT_OTAG_BINARY
       THEN CopyBuffHdr(MemCpy(wikrt_alloc_r(c, wikrt_cellbuff(pv2)), addr, pv3, pv2),
                        dst, pva, addr + wikrt_cellbuff(pv2), addr, pv0, pv2)
       ELSE IF tg = WIKRT_OTAG_ARRAY
       THEN CopyBuffHdr(CpvArray(wikrt_alloc_r(c, wikrt_cellbuff(pv2 * WIKRT_VALSIZE)),
                                 pv3, addr, 0, pv2),
                        dst, pva, addr + wikrt_cellbuff(pv2 * WIKRT_VALSIZE), addr, pv0, pv2)
       ELSE Abort(c, "copy_rs: unrecognized tag")

\* the loop condition of wikrt_copy_rs: the next task, until the stack is
\* back at s0
CopyNext(c, sson, s0) ==
    IF Aborted(c) \/ s0 = c.cs THEN c
    ELSE CopyLoop([c EXCEPT !.cs = @ + WIKRT_VALSIZE], sson, s0, rd(c, c.cs))

CopyLoop(c, sson, s0, dst) == CopyNext(CopyObj(c, sson, dst), sson, s0)

\* wikrt_copy_rs
wikrt_copy_rs(c, sson, s0, dst) ==
    IF wikrt_copy_shallow(Deref(c, dst)) THEN c ELSE CopyLoop(c, sson, s0, dst)

\* wikrt_copy_r(lcx, lval, ss, rcx, rval) with lcx = rcx: the copy is left
\* in rv and its summary in ss.  arg = <<lval, sson>>
\* a copy that hands back the reference it was given
wikrt_copy_r_alias(c, arg) ==
    [c EXCEPT !.cs = c.cap, !.rv = arg[1], !.ss = IF arg[2] THEN 0 ELSE @]
wikrt_copy_r(c, arg) ==
    wikrt_copy_rs([c EXCEPT !.cs = c.cap, !.rv = arg[1],
                            !.ss = IF arg[2] THEN 0 ELSE @],
                  arg[2], c.cap, REG)

----------------------------------------------------------------------------
(* Compaction and reservation.                                             *)

\* one wikrt_copy_r(cx, cx->r, NULL, cx, &(cx->r)) of wikrt_mem_compact
SetReg(k, r) == IF Aborted(k) THEN k ELSE [k EXCEPT ![r] = k.rv]
\* a compaction that leaves the root where it is
CompactReg_stay(c, r) == c
CompactReg(c, r) ==
    IF Aborted(c) THEN c ELSE SetReg(DoA(c, "copy_r", <<c[r], FALSE>>), r)

\* statistics that take the volume before the compaction as its size
CompactStats_before(c, vol0) ==
    IF Aborted(c) THEN c
    ELSE IF vol0 < (c.alloc - c.mem)
    THEN Abort(c, "assert: compaction increased memory usage")
    ELSE [c EXCEPT !.compaction_count = @ + 1,
                   !.compaction_size  = vol0,
                   !.bytes_compacted  = @ + vol0,
                   !.bytes_collected  = @ + (vol0 - (c.alloc - c.mem)),
                   !.largest_size     = IF @ < vol0 THEN vol0 ELSE @]

\* the end of wikrt_mem_compact: the assertion and the statistics
CompactStats(c, vol0) ==
    IF Aborted(c) THEN c
    ELSE IF vol0 < (c.alloc - c.mem)
    THEN Abort(c, "assert: compaction increased memory usage")
    ELSE [c EXCEPT !.compaction_count = @ + 1,
                   !.compaction_size  = c.alloc - c.mem,
                   !.bytes_compacted  = @ + (c.alloc - c.mem),
                   !.bytes_collected  = @ + (vol0 - (c.alloc - c.mem)),
                   !.largest_size     = IF @ < (c.alloc - c.mem) THEN c.alloc - c.mem ELSE @]

\* wikrt_mem_compact
wikrt_mem_compact(c) ==
    CompactStats(
      CompactReg(CompactReg(CompactReg(CompactReg(
        [c EXCEPT !.mem = c.ssp, !.ssp = c.mem, !.alloc = c.ssp, !.cap = c.ssp + cx_size],
        "txn"), "cc"), "pc"), "val"),
      wikrt_memory_volume(c))

\* heuristics of wikrt_mem_gc_then_reserve
WIKRT_MEM_FACTOR == 2
\* WIKRT_MEM_PAGEMB << 20, in cells at the scale of the model's arena
MemPageCells == 4
WIKRT_MEM_PAGE == MemPageCells * WIKRT_CELLSIZE
WIKRT_LNBUFF(sz, ln) == ((sz + ln - 1) \div ln) * ln

\* a heuristic that sizes the working set without the request
GcReserve_low(c1, sz) ==
    LET target == c1.alloc + (c1.largest_size * WIKRT_MEM_FACTOR)
    IN IF Aborted(c1) THEN c1
       ELSE IF ~wikrt_mem_available(c1, sz) THEN wikrt_set_error(c1, "CXFULL")
       ELSE IF target < c1.cap THEN [c1 EXCEPT !.cap = target]
       ELSE c1

\* wikrt_mem_gc_then_reserve, after the compaction
GcReserve(c1, sz) ==
    LET avail == c1.cap - c1.alloc
        inuse == c1.largest_size + sz
        oversized == (avail \div WIKRT_MEM_FACTOR) > inuse
        target == c1.alloc + (inuse * WIKRT_MEM_FACTOR)
        desired == WIKRT_LNBUFF(target, WIKRT_MEM_PAGE)
    IN IF Aborted(c1) THEN c1
       ELSE IF ~wikrt_mem_available(c1, sz) THEN wikrt_set_error(c1, "CXFULL")
       ELSE IF oversized /\ target <= desired /\ desired < c1.cap
            THEN [c1 EXCEPT !.cap = desired]
            ELSE c1

\* wikrt_mem_gc_then_reserve
wikrt_mem_gc_then_reserve(c, sz) == GcReserve(Do(c, "mem_compact"), sz)

\* wikrt_mem_reserve(cx, sz): the context after the call; the call returned
\* true iff MemReserved holds of the result
wikrt_mem_reserve(c, sz) ==
    IF wikrt_mem_available(c, sz) THEN c
    ELSE DoA(c, "mem_gc_then_reserve", sz)
MemReserved(c, sz) == ~Aborted(c) /\ wikrt_mem_available(c, sz)
Reserve(c, sz) == DoA(c, "mem_reserve", sz)

\* wikrt_mature_volume: no mature generation in this runtime
wikrt_mature_volume(c) == 0

\* wikrt_peek_mem_stats: the statistics are left aside, the sanity check
\* is kept
wikrt_peek_mem_stats(c) ==
    IF /\ c.compaction_size <= wikrt_memory_volume(c)
       /\ wikrt_memory_volume(c) <= (c.cap - c.mem) + wikrt_mature_volume(c)
       /\ (c.cap - c.mem) + wikrt_mature_volume(c) <= cx_size
    THEN c
    ELSE Abort(c, "wikrt_peek_mem_stats: assert(lastgc <= current <= nextgc <= maximum)")

\* wikrt_cx_gc
wikrt_cx_gc(c) == DoA(c, "mem_gc_then_reserve", 0)

----------------------------------------------------------------------------
(* Value primitives.  Each is an operator from the context before the call *)
(* to the context after it; Apply leaves a context that has aborted as it  *)
(* is.  The field ulr is the content of an uninitialized wikrt_sum_tag     *)
(* local: the caller of a primitive chooses it, and a function that        *)
(* declares such a local starts with sum = ulr; ub is likewise the content *)
(* of an unwritten byte of a local buffer.                                 *)

SumTags == { "INL", "INR" }
\* what an unassigned wikrt_sum_tag can hold: either tag or any other int
SumGarbage == { "INL", "INR", "OTHER" }
\* the declaration "wikrt_sum_tag lr;"
DeclareLr(c) == [c EXCEPT !.sum = c.ulr]

\* *dst = *src on two word addresses
CpW(c, dst, src) == wr(c, dst, rd(c, src))

\* wikrt_intro_r: (v * val), space already reserved
wikrt_intro_r(c, v) ==
    [wikrt_alloc_cellval_r(c, v, c.val) EXCEPT !.val = wikrt_tag_addr(WIKRT_P, c.alloc)]

\* the rest of f after wikrt_mem_reserve(cx, sz) returned into c1
IntroR(c1, sz, v) == IF ~MemReserved(c1, sz) THEN c1 ELSE wikrt_intro_r(c1, v)

\* wikrt_intro_smallval
wikrt_intro_smallval(c, v) == IntroR(Reserve(c, WIKRT_CELLSIZE), WIKRT_CELLSIZE, v)

wikrt_intro_unit(c) == DoA(c, "intro_smallval", WIKRT_UNIT)
wikrt_intro_empty_list(c) == DoA(c, "intro_smallval", WIKRT_UNIT_INR)

\* wikrt_wrap_otag after the reservation: (v * e) -> ((otag, v) * e)
WrapOtagR(c1, otag) ==
    IF ~MemReserved(c1, WIKRT_CELLSIZE) THEN c1
    ELSE wr(wikrt_alloc_cellval_r(c1, otag, Fst(c1, c1.val)),
            wikrt_vaddr(c1.val), wikrt_tag_addr(WIKRT_O, c1.alloc))

\* wikrt_wrap_otag
wikrt_wrap_otag(c, otag) ==
    IF ~wikrt_p(c.val) THEN wikrt_set_error(c, "ETYPE")
    ELSE WrapOtagR(Reserve(c, WIKRT_CELLSIZE), otag)

\* wikrt_elim_unit
wikrt_elim_unit(c) ==
    IF wikrt_p(c.val) /\ Fst(c, c.val) = WIKRT_UNIT
    THEN [c EXCEPT !.val = Snd(c, c.val)]
    ELSE wikrt_set_error(c, "ETYPE")

\* wikrt_pval_swap on two word addresses
wikrt_pval_swap(c, a, b) == wr(wr(c, a, rd(c, b)), b, rd(c, a))

\* wikrt_wswap_v
wikrt_wswap_v(c, abc) ==
    IF wikrt_p(abc) /\ wikrt_p(Snd(c, abc))
    THEN wikrt_pval_swap(c, wikrt_vaddr(abc), wikrt_vaddr(Snd(c, abc)))
    ELSE wikrt_set_error(c, "ETYPE")

wikrt_wswap(c) == wikrt_wswap_v(c, c.val)

\* wikrt_zswap
wikrt_zswap(c) ==
    IF ~wikrt_p(c.val) THEN wikrt_set_error(c, "ETYPE")
    ELSE wikrt_wswap_v(c, Snd(c, c.val))

\* a re-threading that does not store a into the freed slot
wikrt_assocl_v_lost(c, a_bc) ==
    IF wikrt_p(a_bc) /\ wikrt_p(Snd(c, a_bc))
    THEN LET pa_bc == wikrt_vaddr(a_bc)
             bc    == Snd(c, a_bc)
             pbc   == wikrt_vaddr(bc)
         IN CpW(CpW(wr(c, pa_bc, bc),
                    pa_bc + WIKRT_VALSIZE, pbc + WIKRT_VALSIZE),
                pbc + WIKRT_VALSIZE, pbc)
    ELSE wikrt_set_error(c, "ETYPE")

\* wikrt_assocl_v
wikrt_assocl_v(c, a_bc) ==
    IF wikrt_p(a_bc) /\ wikrt_p(Snd(c, a_bc))
    THEN LET pa_bc == wikrt_vaddr(a_bc)
             bc    == Snd(c, a_bc)
             pbc   == wikrt_vaddr(bc)
             a     == rd(c, pa_bc)
         IN wr(CpW(CpW(wr(c, pa_bc, bc),
                       pa_bc + WIKRT_VALSIZE, pbc + WIKRT_VALSIZE),
                   pbc + WIKRT_VALSIZE, pbc),
               pbc, a)
    ELSE wikrt_set_error(c, "ETYPE")

wikrt_assocl(c) == wikrt_assocl_v(c, c.val)

\* wikrt_assocr_v
wikrt_assocr_v(c, ab_c) ==
    IF wikrt_p(ab_c) /\ wikrt_p(Fst(c, ab_c))
    THEN LET pab_c == wikrt_vaddr(ab_c)
             ab    == Fst(c, ab_c)
             pab   == wikrt_vaddr(ab)
             cc    == rd(c, pab_c + WIKRT_VALSIZE)
         IN wr(CpW(CpW(wr(c, pab_c + WIKRT_VALSIZE, ab),
                       pab_c, pab),
                   pab, pab + WIKRT_VALSIZE),
               pab + WIKRT_VALSIZE, cc)
    ELSE wikrt_set_error(c, "ETYPE")

wikrt_assocr(c) == wikrt_assocr_v(c, c.val)

\* wikrt_accel_swap
wikrt_accel_swap(c) ==
    IF wikrt_p(c.val)
    THEN wikrt_pval_swap(c, wikrt_vaddr(c.val), wikrt_vaddr(c.val) + WIKRT_VALSIZE)
    ELSE wikrt_set_error(c, "ETYPE")

----------------------------------------------------------------------------
(* Sums.                                                                   *)

WIKRT_DEEPSUML == 2
WIKRT_DEEPSUMR == 1 + WIKRT_DEEPSUML
\* WIKRT_VAL_MAX >> 2 for 32-bit words
DEEPSUM_LIMIT == 1073741823

\* the path of a DEEPSUM header, otag >> 8 of an unsigned 32-bit word (a
\* word of 2^31 or more is kept as the negative integer of the same bits)
DeepsumPath(otag) == (otag \div 256) % 16777216
\* (sf << 8) | WIKRT_OTAG_DEEPSUM in 32 bits
DeepsumOtag(sf) ==
    LET s == sf % 16777216
    IN ((IF s >= 8388608 THEN s - 16777216 ELSE s) * 256) + WIKRT_OTAG_DEEPSUM

\* a test for a deepsum that leaves out the test for free space
wikrt_deepsum_with_free_space_any(c, v) ==
    wikrt_o(v) /\ wikrt_otag_deepsum(rd(c, wikrt_vaddr(v)))

\* wikrt_deepsum_with_free_space: otag < (WIKRT_VAL_MAX >> 2), unsigned
wikrt_deepsum_with_free_space(c, v) ==
    /\ wikrt_o(v)
    /\ wikrt_otag_deepsum(rd(c, wikrt_vaddr(v)))
    /\ 0 <= rd(c, wikrt_vaddr(v))
    /\ rd(c, wikrt_vaddr(v)) < DEEPSUM_LIMIT

\* wikrt_wrap_sum_p
wikrt_wrap_sum_p(c, sum) ==
    LET inL == (sum = "INL")
        pv  == wikrt_vaddr(c.val)
        v   == rd(c, pv)
        po  == wikrt_vaddr(v)
        s0  == DeepsumPath(rd(c, po))
        sf  == (s0 * 4) + (IF inL THEN WIKRT_DEEPSUML ELSE WIKRT_DEEPSUMR)
    IN IF v % 4 = 1 THEN wr(c, pv, v + (IF inL THEN 1 ELSE 2))
       ELSE IF wikrt_deepsum_with_free_space(c, v)
            THEN wr(c, po, DeepsumOtag(sf))
       ELSE DoA(c, "wrap_otag", ((IF inL THEN WIKRT_DEEPSUML ELSE WIKRT_DEEPSUMR) * 256)
                                 + WIKRT_OTAG_DEEPSUM)

\* wikrt_wrap_sum
wikrt_wrap_sum(c, sum) ==
    IF ~wikrt_p(c.val) THEN wikrt_set_error(c, "ETYPE")
    ELSE DoA(c, "wrap_sum_p", sum)

\* utf8_readcp_size: length of the sequence announced by its first byte
utf8_readcp_size(b) == IF b < 128 THEN 1 ELSE IF b < 224 THEN 2 ELSE IF b < 240 THEN 3 ELSE 4

\* utf8_readcp_unsafe: the code point of a complete sequence
utf8_readcp_unsafe(bs) ==
    LET n == utf8_readcp_size(bs[1])
        x(i) == bs[i] % 64
    IN CASE n = 1 -> bs[1]
         [] n = 2 -> ((bs[1] % 32) * 64) + x(2)
         [] n = 3 -> ((bs[1] % 16) * 4096) + (x(2) * 64) + x(3)
         [] OTHER -> ((bs[1] % 8) * 262144) + (x(2) * 4096) + (x(3) * 64) + x(4)

\* utf8_writecp_unsafe: the bytes of a code point
utf8_writecp_unsafe(cp) ==
    IF cp < 128 THEN << cp >>
    ELSE IF cp < 2048 THEN << 192 + (cp \div 64), 128 + (cp % 64) >>
    ELSE IF cp < 65536
         THEN << 224 + (cp \div 4096), 128 + ((cp \div 64) % 64), 128 + (cp % 64) >>
         ELSE << 240 + (cp \div 262144), 128 + ((cp \div 4096) % 64),
                 128 + ((cp \div 64) % 64), 128 + (cp % 64) >>

\* wikrt_text_char: no control code but LF, no surrogate, no replacement char
wikrt_text_char(cp) ==
    /\ cp <= 1114111
    /\ ~(cp <= 31 /\ cp # 10)
    /\ ~(127 <= cp /\ cp <= 159)
    /\ ~(55296 <= cp /\ cp <= 57343)
    /\ cp # 65533

\* utf8_readcp(s, n, &cp): the bytes of the code point at the head of s, 0
\* where s has no complete well-formed sequence at its head
utf8_readcp(s) ==
    IF s = << >> \/ s[1] \div 64 = 2 \/ s[1] >= 248 THEN 0
    ELSE IF Len(s) < utf8_readcp_size(s[1]) THEN 0
    ELSE IF \E j \in 2..utf8_readcp_size(s[1]) : s[j] \div 64 # 2 THEN 0
    ELSE utf8_readcp_size(s[1])

RECURSIVE ValidTextLen(_)
\* the loop of wikrt_valid_text_len: the bytes of s in valid text
ValidTextLen(s) ==
    IF utf8_readcp(s) = 0 THEN 0
    ELSE IF ~wikrt_text_char(utf8_readcp_unsafe(SubSeq(s, 1, utf8_readcp(s)))) THEN 0
    ELSE utf8_readcp(s) + ValidTextLen(SubSeq(s, utf8_readcp(s) + 1, Len(s)))

\* wikrt_intro_text(cx, s, nBytes) with nBytes = Len(s): the text ends at
\* the first NUL
wikrt_intro_text(c, s) ==
    IF ~(ValidTextLen(s) = Len(s) \/ s[ValidTextLen(s) + 1] = 0)
    THEN wikrt_set_error(c, "INVAL")
    ELSE DoA(DoA(c, "intro_binary", SubSeq(s, 1, ValidTextLen(s))),
             "wrap_otag", WIKRT_OTAG_UTF8)

\* the size a token must stay below (the header's limit, scaled down)
WIKRT_TOK_BUFFSZ == 4

\* wikrt_token_char: a text char other than '{', '}' and LF
wikrt_token_char(cp) == wikrt_text_char(cp) /\ cp \notin { 123, 125, 10 }

RECURSIVE ValidTokenChars(_)
\* the loop of wikrt_valid_token_l: every code point of s is a token char
ValidTokenChars(s) ==
    IF s = << >> THEN TRUE
    ELSE IF utf8_readcp(s) = 0 THEN FALSE
    ELSE IF ~wikrt_token_char(utf8_readcp_unsafe(SubSeq(s, 1, utf8_readcp(s)))) THEN FALSE
    ELSE ValidTokenChars(SubSeq(s, utf8_readcp(s) + 1, Len(s)))

\* wikrt_valid_token(cstr), s the bytes before the NUL
wikrt_valid_token(s) ==
    /\ 0 < Len(s)
    /\ Len(s) < WIKRT_TOK_BUFFSZ
    /\ ValidTokenChars(s)

\* the bytes of a C string whose chars are s: a char of a build with
\* signed char is in -128 .. 127, of a build with unsigned char in 0 .. 255
U8(s) == [i \in 1..Len(s) |-> s[i] % 256]

\* (wikrt_val)ch as four bytes, the lowest first: a negative char is
\* sign-extended
CharWord(ch) == IF ch < 0 THEN << ch + 256, 255, 255, 255 >> ELSE << ch, 0, 0, 0 >>

\* the word of four bytes, the lowest first
WordOfBytes(b) == b[1] + (256 * b[2]) + (65536 * b[3]) + ByteAt(b[4], 16777216)

\* the four bytes of a word, the lowest first
BytesOfWord(w) == [i \in 1..WIKRT_VALSIZE |-> (w \div Pow256(i - 1)) % 256]

RECURSIVE SealSmOtag(_, _, _)
\* the do-while of wikrt_wrap_seal, otag = (otag << 8) | (wikrt_val)s[--ix],
\* on the bytes of otag
SealSmOtag(s, ix, otag) ==
    LET sh == << 0, otag[1], otag[2], otag[3] >>
        cw == CharWord(s[ix])
        o2 == [i \in 1..WIKRT_VALSIZE |-> BitOr(sh[i], cw[i])]
    IN IF ix = 1 THEN WordOfBytes(o2) ELSE SealSmOtag(s, ix - 1, o2)

\* wikrt_wrap_seal, general case, after the reservation
WrapSealR(c1, s, szAlloc) ==
    LET addr == c1.alloc
    IN IF ~MemReserved(c1, szAlloc) THEN c1
       ELSE wr(MemPut(wr(wr(wikrt_alloc_r(c1, szAlloc),
                            addr, (Len(s) * 256) + WIKRT_OTAG_SEAL),
                         addr + WIKRT_VALSIZE, Fst(c1, c1.val)),
                      addr + WIKRT_CELLSIZE, U8(s)),
               wikrt_vaddr(c1.val), wikrt_tag_addr(WIKRT_O, addr))

\* wikrt_wrap_seal(cx, s), s the chars before the NUL
wikrt_wrap_seal(c, s) ==
    IF ~wikrt_valid_token(U8(s)) THEN wikrt_set_error(c, "INVAL")
    ELSE IF ~wikrt_p(c.val) THEN wikrt_set_error(c, "ETYPE")
    ELSE IF s[1] = WIKRT_OTAG_SEAL_SM /\ Len(s) <= WIKRT_VALSIZE
    THEN DoA(c, "wrap_otag", SealSmOtag(s, Len(s), << 0, 0, 0, 0 >>))
    ELSE WrapSealR(Reserve(c, WIKRT_CELLSIZE + wikrt_cellbuff(Len(s))), s,
                   WIKRT_CELLSIZE + wikrt_cellbuff(Len(s)))

\* wikrt_unwrap_seal(cx, buff): the bytes written to buff are left in buf
wikrt_unwrap_seal(c) ==
    LET v  == Fst(c, c.val)
        pv == wikrt_vaddr(v)
        hd == rd(c, pv)
        len == hd \div 256
    IN IF ~(wikrt_p(c.val) /\ wikrt_o(v))
       THEN wikrt_set_error([c EXCEPT !.buf = << 0 >>], "ETYPE")
       ELSE IF LOBYTE(hd) = WIKRT_OTAG_SEAL_SM
       THEN wr([c EXCEPT !.buf = BytesOfWord(hd) \o << 0 >>],
               wikrt_vaddr(c.val), rd(c, pv + WIKRT_VALSIZE))
       ELSE IF LOBYTE(hd) = WIKRT_OTAG_SEAL
       THEN IF ~(0 <= len /\ len < WIKRT_TOK_BUFFSZ)
            THEN Abort(c, "wikrt_unwrap_seal: assert(len < WIKRT_TOK_BUFFSZ)")
            ELSE wr([c EXCEPT !.buf = MemGet(c, pv + WIKRT_CELLSIZE, len) \o << 0 >>],
                    wikrt_vaddr(c.val), rd(c, pv + WIKRT_VALSIZE))
       ELSE wikrt_set_error([c EXCEPT !.buf = << 0 >>], "ETYPE")

\* (1 << 28) - 1: 29 payload bits of a 32-bit word
WIKRT_SMALLINT_MAX == 268435455
WIKRT_SMALLINT_MIN == 0 - WIKRT_SMALLINT_MAX

\* wikrt_intro_i32
wikrt_intro_i32(c, n) ==
    IF WIKRT_SMALLINT_MIN <= n /\ n <= WIKRT_SMALLINT_MAX
    THEN DoA(c, "intro_smallval", wikrt_i2v(n))
    ELSE wikrt_set_error(c, "IMPL")

\* wikrt_cons: (a * (as * e)) -> ((a:as) * e)
wikrt_cons(c) == DoA(Do(c, "assocl"), "wrap_sum", "INL")

RECURSIVE wikrt_val_is_compact_binary(_, _)
wikrt_val_is_compact_binary(c, v) ==
    IF wikrt_o(v)
    THEN IF ~wikrt_otag_binary(rd(c, wikrt_vaddr(v))) THEN FALSE
         ELSE wikrt_val_is_compact_binary(c, rd(c, wikrt_vaddr(v) + WIKRT_VALSIZE))
    ELSE v = WIKRT_UNIT_INR

\* wikrt_value_is_compact_binary: the head is a BINARY and every chunk is
\* a BINARY, ended by unit-in-right
wikrt_value_is_compact_binary(c, v) == wikrt_o(v) /\ wikrt_val_is_compact_binary(c, v)

\* the header (otag, next, size, buffer) of a chunk, written at hdr
ChunkHdr(c, hdr, otag, next, size, buff) ==
    wr(wr(wr(wr(c, hdr, otag), hdr + WIKRT_VALSIZE, next),
          hdr + 2 * WIKRT_VALSIZE, size), hdr + 3 * WIKRT_VALSIZE, buff)

\* wikrt_intro_binary after the reservation: the buffer, then the header
IntroBinaryR(c1, data, szAlloc) ==
    LET szBuff == wikrt_cellbuff(Len(data))
        buff   == c1.alloc
        hdr    == c1.alloc + szBuff
    IN IF ~MemReserved(c1, szAlloc) THEN c1
       ELSE IF Len(data) = 0 THEN wikrt_intro_r(c1, WIKRT_UNIT_INR)
       ELSE wikrt_intro_r(ChunkHdr(MemPut(wikrt_alloc_r(c1, szBuff + 2 * WIKRT_CELLSIZE),
                                          buff, data),
                                   hdr, WIKRT_OTAG_BINARY, WIKRT_UNIT_INR, Len(data), buff),
                          wikrt_tag_addr(WIKRT_O, hdr))

\* wikrt_intro_binary(cx, data, len)
wikrt_intro_binary(c, data) ==
    IF Len(data) >= cx_size THEN wikrt_set_error(c, "CXFULL")
    ELSE IntroBinaryR(Reserve(c, (3 * WIKRT_CELLSIZE) + wikrt_cellbuff(Len(data))), data,
                      (3 * WIKRT_CELLSIZE) + wikrt_cellbuff(Len(data)))

\* wikrt_cons_binary_chunk after the reservation
ConsChunkR(c1, bytes, szAlloc) ==
    LET szBuff == wikrt_cellbuff(Len(bytes))
        buff   == c1.alloc
        hdr    == c1.alloc + szBuff
    IN IF ~MemReserved(c1, szAlloc) THEN c1
       ELSE wr(ChunkHdr(MemPut(wikrt_alloc_r(c1, szBuff + 2 * WIKRT_CELLSIZE), buff, bytes),
                        hdr, WIKRT_OTAG_BINARY, Fst(c1, c1.val), Len(bytes), buff),
               wikrt_vaddr(c1.val), wikrt_tag_addr(WIKRT_O, hdr))

\* wikrt_cons_binary_chunk(cx, bytes, bytect)
wikrt_cons_binary_chunk(c, bytes) ==
    IF ~wikrt_p(c.val) THEN wikrt_set_error(c, "ETYPE")
    ELSE IF Len(bytes) = 0 THEN c
    ELSE ConsChunkR(Reserve(c, (2 * WIKRT_CELLSIZE) + wikrt_cellbuff(Len(bytes))), bytes,
                    (2 * WIKRT_CELLSIZE) + wikrt_cellbuff(Len(bytes)))

RECURSIVE PutWords(_, _, _)
\* the words ws written from the address dst on
PutWords(c, dst, ws) ==
    IF ws = << >> THEN c ELSE PutWords(wr(c, dst, Head(ws)), dst + WIKRT_VALSIZE, Tail(ws))

\* An ARRAY chunk (otag, next, elemct, buffer) of the small values ws in
\* front of the list on top of the stack.  wikrt.c reads arrays and has no
\* function that builds one; this one follows wikrt_cons_binary_chunk,
\* with slots of one word.
ConsArrayR(c1, ws, szAlloc) ==
    LET szBuff == wikrt_cellbuff(Len(ws) * WIKRT_VALSIZE)
        buff   == c1.alloc
        hdr    == c1.alloc + szBuff
    IN IF ~MemReserved(c1, szAlloc) THEN c1
       ELSE wr(ChunkHdr(PutWords(wikrt_alloc_r(c1, szBuff + 2 * WIKRT_CELLSIZE), buff, ws),
                        hdr, WIKRT_OTAG_ARRAY, Fst(c1, c1.val), Len(ws), buff),
               wikrt_vaddr(c1.val), wikrt_tag_addr(WIKRT_O, hdr))

cons_array_chunk(c, ws) ==
    IF ~wikrt_p(c.val) THEN wikrt_set_error(c, "ETYPE")
    ELSE IF Len(ws) = 0 THEN c
    ELSE ConsArrayR(Reserve(c, (2 * WIKRT_CELLSIZE) + wikrt_cellbuff(Len(ws) * WIKRT_VALSIZE)),
                    ws, (2 * WIKRT_CELLSIZE) + wikrt_cellbuff(Len(ws) * WIKRT_VALSIZE))

RECURSIVE ReadBinaryLoop(_, _)

\* the last branch of the loop of wikrt_read_binary, after the unwrap (u)
\* and the wrap (w) of the list; lr0 is the caller's sum tag, which the
\* local lr of this branch does not touch
ReadBinaryExpand(w, lr, lr0, max) ==
    IF Aborted(w) THEN w
    ELSE IF lr = "INR" THEN [w EXCEPT !.sum = lr0]
    ELSE IF ~wikrt_pl(Fst(w, w.val)) THEN wikrt_set_error([w EXCEPT !.sum = lr0], "ETYPE")
    ELSE ReadBinaryLoop([w EXCEPT !.sum = lr0], max)

\* The loop of wikrt_read_binary: the bytes read so far are c.buf
ReadBinaryLoop(c, max) ==
    LET pv  == wikrt_vaddr(c.val)
        v   == rd(c, pv)
        pn  == wikrt_vaddr(v)
        byte == wikrt_v2i(rd(c, pn))
        okByte == wikrt_smallint(rd(c, pn)) /\ 0 <= byte /\ byte <= 255
        limit == max - Len(c.buf)
        sz  == rd(c, pn + 2 * WIKRT_VALSIZE)
        bf  == rd(c, pn + 3 * WIKRT_VALSIZE)
        limited == sz > limit
        nread == IF limited THEN limit ELSE sz
        u   == Do(DeclareLr(c), "unwrap_sum_p")
    IN IF Aborted(c) THEN c
       ELSE IF wikrt_pl(v)
       THEN IF ~okByte THEN wikrt_set_error(c, "ETYPE")
            ELSE IF limit = 0 THEN c
            ELSE ReadBinaryLoop([wr(c, pv, rd(c, pn + WIKRT_VALSIZE))
                                   EXCEPT !.buf = Append(@, byte)], max)
       ELSE IF wikrt_value_is_compact_binary(c, v)
       THEN IF limited
            THEN [wr(wr(c, pn + 2 * WIKRT_VALSIZE, sz - nread),
                     pn + 3 * WIKRT_VALSIZE, bf + nread)
                    EXCEPT !.buf = @ \o MemGet(c, bf, nread)]
            ELSE ReadBinaryLoop([wr(c, pv, rd(c, pn + WIKRT_VALSIZE))
                                   EXCEPT !.buf = @ \o MemGet(c, bf, nread)], max)
       ELSE ReadBinaryExpand(DoA(u, "wrap_sum_p", u.sum), u.sum, c.sum, max)

\* wikrt_read_binary(cx, buff, &bytes) with *bytes = max on entry: the bytes
\* read are left in buf
wikrt_read_binary(c, max) ==
    IF ~wikrt_p(c.val) THEN wikrt_set_error([c EXCEPT !.buf = <<>>], "ETYPE")
    ELSE ReadBinaryLoop([c EXCEPT !.buf = <<>>], max)

\* a pop that does not advance the buffer
ExpandPop_stay(c1, hd, step) ==
    LET pv == wikrt_vaddr(c1.val)
        v  == rd(c1, pv)
        po == wikrt_vaddr(v)
        nx == rd(c1, po + WIKRT_VALSIZE)
        sz == rd(c1, po + 2 * WIKRT_VALSIZE)
    IN wr(wikrt_alloc_cellval_r(wr(c1, po + 2 * WIKRT_VALSIZE, sz - 1),
                                hd, IF sz - 1 = 0 THEN nx ELSE v),
          pv, wikrt_tag_addr(WIKRT_PL, c1.alloc))

\* array and binary cases of wikrt_expand_sum_p: pop the element hd
ExpandPop(c1, hd, step) ==
    LET pv == wikrt_vaddr(c1.val)
        v  == rd(c1, pv)
        po == wikrt_vaddr(v)
        nx == rd(c1, po + WIKRT_VALSIZE)
        sz == rd(c1, po + 2 * WIKRT_VALSIZE)
        bf == rd(c1, po + 3 * WIKRT_VALSIZE)
    IN wr(wikrt_alloc_cellval_r(wr(wr(c1, po + 3 * WIKRT_VALSIZE, bf + step),
                                   po + 2 * WIKRT_VALSIZE, sz - 1),
                                hd, IF sz - 1 = 0 THEN nx ELSE v),
          pv, wikrt_tag_addr(WIKRT_PL, c1.alloc))

\* text case of wikrt_expand_sum_p, after the reads: buff[] holds the first
\* byte b1 and what the second read (r2) delivered; bytes of buff[] that no
\* read filled keep what the stack held
ExpandUtf8Cons(r2, b1, needed) ==
    IF Aborted(r2) THEN r2
    ELSE IF needed # 0 /\ Len(r2.buf) # needed /\ ~wikrt_has_error(r2)
    THEN Abort(r2, "assert: bytes_needed == readct")
    ELSE Do(DoA(DoA(r2, "wrap_otag", WIKRT_OTAG_UTF8), "intro_i32",
                utf8_readcp_unsafe(<<b1>> \o (IF needed = 0 THEN <<>> ELSE r2.buf)
                    \o [i \in 1..(needed - (IF needed = 0 THEN 0 ELSE Len(r2.buf))) |-> r2.ub])),
           "cons")

\* text case of wikrt_expand_sum_p, after the first read (r1)
ExpandUtf8(r1) ==
    IF Aborted(r1) \/ Len(r1.buf) = 0 THEN r1
    ELSE IF utf8_readcp_size(r1.buf[1]) = 1 THEN ExpandUtf8Cons(r1, r1.buf[1], 0)
    ELSE ExpandUtf8Cons(DoA(r1, "read_binary", utf8_readcp_size(r1.buf[1]) - 1),
                        r1.buf[1], utf8_readcp_size(r1.buf[1]) - 1)

\* wikrt_expand_sum_p after the reservation
ExpandR(c1) ==
    LET pv == wikrt_vaddr(c1.val)
        v  == rd(c1, pv)
        po == wikrt_vaddr(v)
        tg == LOBYTE(rd(c1, po))
        bf == rd(c1, po + 3 * WIKRT_VALSIZE)
    IN IF ~MemReserved(c1, WIKRT_CELLSIZE) THEN c1
       ELSE IF tg = WIKRT_OTAG_ARRAY THEN ExpandPop(c1, rd(c1, bf), WIKRT_VALSIZE)
       ELSE IF tg = WIKRT_OTAG_BINARY THEN ExpandPop(c1, wikrt_i2v(RdByte(c1, bf)), 1)
       ELSE IF tg = WIKRT_OTAG_UTF8
       THEN ExpandUtf8(DoA(wr(c1, pv, rd(c1, po + WIKRT_VALSIZE)), "read_binary", 1))
       ELSE wikrt_set_error(c1, "ETYPE")

\* wikrt_expand_sum_p: pull one element out of an array, binary or text
wikrt_expand_sum_p(c) == ExpandR(Reserve(c, WIKRT_CELLSIZE))

\* the tail call of wikrt_unwrap_sum_p after wikrt_expand_sum_p (e)
UnwrapAgain(e) ==
    IF Aborted(e) \/ wikrt_has_error(e) THEN e ELSE Do(e, "unwrap_sum_p")

\* wikrt_unwrap_sum_p: *sum is the field sum, which keeps its content where
\* the code does not assign it
wikrt_unwrap_sum_p(c) ==
    LET pv == wikrt_vaddr(c.val)
        v  == rd(c, pv)
        po == wikrt_vaddr(v)
        s0 == DeepsumPath(rd(c, po))
        sf == s0 \div 4
    IN IF (v \div 2) % 2 = 1
       THEN IF v % 2 = 1 THEN [wr(c, pv, v - 2) EXCEPT !.sum = "INR"]
                         ELSE [wr(c, pv, v - 1) EXCEPT !.sum = "INL"]
       ELSE IF wikrt_o(v)
       THEN IF wikrt_otag_deepsum(rd(c, po))
            THEN [(IF sf = 0 THEN wr(c, pv, rd(c, po + WIKRT_VALSIZE))
                   ELSE wr(c, po, DeepsumOtag(sf)))
                   EXCEPT !.sum = IF s0 % 4 = WIKRT_DEEPSUML THEN "INL" ELSE "INR"]
            ELSE UnwrapAgain(Do(c, "expand_sum_p"))
       ELSE wikrt_set_error(c, "ETYPE")

\* wikrt_unwrap_sum
wikrt_unwrap_sum(c) ==
    IF ~wikrt_p(c.val) THEN wikrt_set_error(c, "ETYPE")
    ELSE Do(c, "unwrap_sum_p")

\* wikrt_wrap_sum(cx, lr) with the local lr of the caller
WrapLr(c) == DoA(c, "wrap_sum", c.sum)

\* wikrt_sum_distrib
wikrt_sum_distrib(c) ==
    WrapLr(Do(Do(Do(DeclareLr(Do(c, "wswap")), "unwrap_sum"), "wswap"), "assocl"))

\* wikrt_sum_factor
wikrt_sum_factor(c) ==
    WrapLr(Do(WrapLr(Do(Do(Do(DeclareLr(c), "unwrap_sum"), "assocr"), "wswap")), "wswap"))

\* the swapped tag of wikrt_accel_sum_swap
SwapLr(u) == DoA(u, "wrap_sum_p", IF u.sum = "INL" THEN "INR" ELSE "INL")

\* wikrt_accel_sum_swap
wikrt_accel_sum_swap(c) ==
    IF ~wikrt_p(c.val) THEN wikrt_set_error(c, "ETYPE")
    ELSE SwapLr(Do(DeclareLr(c), "unwrap_sum_p"))

----------------------------------------------------------------------------
(* Integers.                                                               *)

wikrt_integer(c, v) == wikrt_smallint(v)

\* wikrt_cx_has_two_ints
wikrt_cx_has_two_ints(c) ==
    /\ wikrt_p(c.val)
    /\ wikrt_p(Snd(c, c.val))
    /\ wikrt_integer(c, Fst(c, c.val))
    /\ wikrt_integer(c, Fst(c, Snd(c, c.val)))

\* a binary operation without the range test: wikrt_i2v keeps the low 29
\* bits of the result
IntBinop_wrap(c, range_ok, result) ==
    IF ~wikrt_cx_has_two_ints(c) THEN wikrt_set_error(c, "ETYPE")
    ELSE [wr(c, wikrt_vaddr(Snd(c, c.val)),
             wikrt_i2v(((result + 268435456) % 536870912) - 268435456))
            EXCEPT !.val = Snd(c, c.val)]

\* the shared shape of wikrt_int_add and wikrt_int_mul: result is the
\* value stored where range_ok
IntBinop(c, range_ok, result) ==
    IF ~wikrt_cx_has_two_ints(c) THEN wikrt_set_error(c, "ETYPE")
    ELSE IF ~range_ok THEN wikrt_set_error(c, "IMPL")
    ELSE [wr(c, wikrt_vaddr(Snd(c, c.val)), wikrt_i2v(result)) EXCEPT !.val = Snd(c, c.val)]

\* a value is in the range of the small integers
SmallRange(n) == WIKRT_SMALLINT_MIN <= n /\ n <= WIKRT_SMALLINT_MAX

\* wikrt_int_add: the int32 sum of two small integers is exact
wikrt_int_add(c) ==
    IntBinop(c, SmallRange(wikrt_v2i(Fst(c, c.val)) + wikrt_v2i(Fst(c, Snd(c, c.val)))),
             wikrt_v2i(Fst(c, c.val)) + wikrt_v2i(Fst(c, Snd(c, c.val))))

Abs(n) == IF n < 0 THEN 0 - n ELSE n
\* 2^14 and 2^28: the halves of a small integer, and the small integers
Half == 128 * 128
Full == Half * Half

\* the int64 product of two small integers, as sign, magnitude \div 2^28
\* and magnitude % 2^28: the product of the halves, summed by weight
Mul64(a, b) ==
    LET a1 == Abs(a) \div Half
        a0 == Abs(a) % Half
        b1 == Abs(b) \div Half
        b0 == Abs(b) % Half
        mid == (a1 * b0) + (a0 * b1)
        low == ((mid % Half) * Half) + (a0 * b0)
    IN [neg |-> (a < 0) # (b < 0),
        hi  |-> (a1 * b1) + (mid \div Half) + (low \div Full),
        lo  |-> low % Full]

\* wikrt_int_mul: a product is in range where it is below 2^28 in magnitude;
\* (wikrt_int)prod is stored
wikrt_int_mul(c) ==
    LET prod == Mul64(wikrt_v2i(Fst(c, c.val)), wikrt_v2i(Fst(c, Snd(c, c.val))))
    IN IntBinop(c, prod.hi = 0, IF prod.neg THEN 0 - prod.lo ELSE prod.lo)

\* the quotient and the remainder of C11: truncation toward zero
CQuot(a, b) == IF (a < 0) # (b < 0) THEN 0 - (Abs(a) \div Abs(b)) ELSE Abs(a) \div Abs(b)
CRem(a, b) == IF a < 0 THEN 0 - (Abs(a) % Abs(b)) ELSE Abs(a) % Abs(b)

\* a division without the repair
wikrt_smallint_divmod_c11(dividend, divisor) ==
    [quot |-> CQuot(dividend, divisor), rem |-> CRem(dividend, divisor)]

\* wikrt_smallint_divmod: *quot and *rem
wikrt_smallint_divmod(dividend, divisor) ==
    LET quot == CQuot(dividend, divisor)
        rem  == CRem(dividend, divisor)
        needs_repair == IF divisor > 0 THEN rem < 0 ELSE rem > 0
    IN IF needs_repair THEN [quot |-> quot - 1, rem |-> rem + divisor]
       ELSE [quot |-> quot, rem |-> rem]

\* wikrt_int_div: (divisor * (dividend * e)) -> (remainder * (quotient * e))
wikrt_int_div(c) ==
    LET pouter   == wikrt_vaddr(c.val)
        pinner   == wikrt_vaddr(Snd(c, c.val))
        divisor  == rd(c, pouter)
        dividend == rd(c, pinner)
        qr == wikrt_smallint_divmod(wikrt_v2i(dividend), wikrt_v2i(divisor))
    IN IF ~wikrt_cx_has_two_ints(c) THEN wikrt_set_error(c, "ETYPE")
       ELSE IF divisor = WIKRT_IZERO THEN wikrt_set_error(c, "EDIV0")
       ELSE wr(wr(c, pouter, wikrt_i2v(qr.rem)), pinner, wikrt_i2v(qr.quot))

\* wikrt_int_neg
wikrt_int_neg(c) ==
    IF wikrt_p(c.val) /\ wikrt_smallint(Fst(c, c.val))
    THEN wr(c, wikrt_vaddr(c.val), wikrt_i2v(0 - wikrt_v2i(Fst(c, c.val))))
    ELSE wikrt_set_error(c, "ETYPE")

----------------------------------------------------------------------------
(* Copy, drop, trash, reset.                                               *)

WIKRT_ALLOW_SIZE_BYPASS == TRUE

\* an estimate without the cell of the introduction
wikrt_peek_size_ssp_less(c) ==
    IF wikrt_vsize(c, Fst(c, c.val)) = -1 THEN -1
    ELSE wikrt_vsize(c, Fst(c, c.val))

\* wikrt_peek_size_ssp; -1 when wikrt_vsize meets a tag it does not know
wikrt_peek_size_ssp(c) ==
    IF wikrt_vsize(c, Fst(c, c.val)) = -1 THEN -1
    ELSE WIKRT_CELLSIZE + wikrt_vsize(c, Fst(c, c.val))

\* wikrt_copy_m after wikrt_copy_r (k): the copy is introduced and the size
\* estimate validated
CopyIntro(k, bypass, alloc_est, s0) ==
    IF Aborted(k) THEN k
    ELSE IF ~(bypass \/ alloc_est = wikrt_memory_volume(wikrt_intro_r(k, k.rv)) - s0)
    THEN Abort(wikrt_intro_r(k, k.rv), "invalid size estimate for copy")
    ELSE wikrt_intro_r(k, k.rv)

\* wikrt_copy_m after the reservation (c1)
CopyReserved(c1, bypass, alloc_est) ==
    IF ~MemReserved(c1, alloc_est) THEN c1
    ELSE CopyIntro(DoA(c1, "copy_r", << Fst(c1, c1.val), TRUE >>),
                   bypass, alloc_est, wikrt_memory_volume(c1))

\* wikrt_copy_m after the size estimate
CopyEstimated(c, bypass, alloc_est) ==
    IF alloc_est = -1 THEN Abort(c, "vsize: unrecognized tag")
    ELSE CopyReserved(Reserve(c, alloc_est), bypass, alloc_est)

\* wikrt_copy_m with lcx = rcx: the summary is left in ss
wikrt_copy_m(c) ==
    IF ~wikrt_p(c.val) THEN wikrt_set_error(c, "ETYPE")
    ELSE IF WIKRT_ALLOW_SIZE_BYPASS
            /\ wikrt_mem_available(c, WIKRT_CELLSIZE + wikrt_memory_volume(c))
    THEN CopyEstimated(c, TRUE, 0)
    ELSE CopyEstimated(c, FALSE, wikrt_peek_size_ssp(c))

\* a wikrt_copy without the check
CopyCheck_none(m) == m

\* the check of wikrt_copy on the summary
CopyCheck(m) ==
    IF Aborted(m) \/ wikrt_ss_copyable(m.ss) THEN m ELSE wikrt_set_error(m, "ETYPE")

\* wikrt_copy
wikrt_copy(c) == CopyCheck(Do([c EXCEPT !.ss = 0], "copy_m"))

\* wikrt_drop after the cell is removed (c1); ss is the summary of the walk
DropCheck(c1, ss) ==
    IF ss = -1 THEN Abort(c1, "drop_sv: unrecognized tag")
    ELSE IF ~wikrt_ss_droppable(ss) THEN wikrt_set_error(c1, "ETYPE")
    ELSE c1

\* wikrt_drop
wikrt_drop(c) ==
    IF ~wikrt_p(c.val) THEN wikrt_set_error(c, "ETYPE")
    ELSE DropCheck([c EXCEPT !.val = Snd(c, c.val)], wikrt_drop_sv(c, Fst(c, c.val), TRUE))

\* wikrt_erase_trashval
wikrt_erase_trashval(c, ss) ==
    IF ss = -1 THEN Abort(c, "drop_sv: unrecognized tag")
    ELSE IF ss = 0 THEN wr(c, wikrt_vaddr(c.val), WIKRT_NORMAL_TRASH)
    ELSE DoA(wr(c, wikrt_vaddr(c.val), WIKRT_UNIT_INR), "wrap_otag",
             WIKRT_OTAG_TRASH + wikrt_ss_to_block_flags(ss))

\* wikrt_trash
wikrt_trash(c) ==
    IF ~wikrt_p(c.val) THEN wikrt_set_error(c, "ETYPE")
    ELSE wikrt_erase_trashval(c, wikrt_drop_sv(c, Fst(c, c.val), TRUE))

\* wikrt_drop_txn
wikrt_drop_txn(c) ==
    IF Aborted(wikrt_drop_v(c, c.txn)) THEN wikrt_drop_v(c, c.txn)
    ELSE [c EXCEPT !.txn = WIKRT_REG_TXN_INIT]

\* wikrt_cx_reset after wikrt_drop_txn (c1)
ResetRegs(c1) ==
    IF Aborted(c1) THEN c1
    ELSE IF Aborted(wikrt_drop_v(c1, c1.val)) THEN wikrt_drop_v(c1, c1.val)
    ELSE IF Aborted(wikrt_drop_v(c1, c1.cc))
         THEN wikrt_drop_v([c1 EXCEPT !.val = WIKRT_REG_VAL_INIT], c1.cc)
    ELSE IF Aborted(wikrt_drop_v(c1, c1.pc))
         THEN wikrt_drop_v([c1 EXCEPT !.val = WIKRT_REG_VAL_INIT,
                                      !.cc = WIKRT_REG_CC_INIT], c1.pc)
    ELSE [c1 EXCEPT !.val = WIKRT_REG_VAL_INIT, !.cc = WIKRT_REG_CC_INIT,
                    !.pc = WIKRT_REG_PC_INIT, !.ecode = "OK"]

\* wikrt_cx_reset
wikrt_cx_reset(c) == ResetRegs(Do(c, "drop_txn"))

----------------------------------------------------------------------------
(* Blocks.                                                                 *)

\* the ABC characters of wikrt_abc2op_ascii_table, in the order of the table
AbcChars == << 108, 114, 119, 122, 118, 99, 76, 82, 87, 90, 86, 67, 94, 37, 32, 10,
               36, 111, 39, 107, 102, 35, 49, 50, 51, 52, 53, 54, 55, 56, 57, 48,
               43, 42, 45, 81, 71, 63, 68, 70, 77, 75 >>
OP_INVAL == 0
\* wikrt_abc2op_ascii_table[cp]: the op of an ABC character, OP_INVAL otherwise
wikrt_abc2op_ascii_table(cp) ==
    IF \E i \in 1..Len(AbcChars) : AbcChars[i] = cp
    THEN CHOOSE i \in 1..Len(AbcChars) : AbcChars[i] = cp
    ELSE OP_INVAL
\* the accelerator op `vr$c`
ACCEL_INLINE == 48

wikrt_intro_op(c, op) == DoA(c, "intro_smallval", wikrt_i2v(op))

\* wikrt_quote after the reservation (c1): block, cons and opval cells
QuoteR(c1) ==
    LET a == c1.alloc
    IN IF ~MemReserved(c1, 3 * WIKRT_CELLSIZE) THEN c1
       ELSE IF ~wikrt_p(c1.val) THEN wikrt_set_error(c1, "ETYPE")
       ELSE wr(wr(wr(wr(wr(wr(wr(wikrt_alloc_r(c1, 3 * WIKRT_CELLSIZE),
               a, WIKRT_OTAG_BLOCK),
               a + WIKRT_VALSIZE, wikrt_tag_addr(WIKRT_PL, a + WIKRT_CELLSIZE)),
               a + 2 * WIKRT_VALSIZE, wikrt_tag_addr(WIKRT_O, a + 2 * WIKRT_CELLSIZE)),
               a + 3 * WIKRT_VALSIZE, WIKRT_UNIT_INR),
               a + 4 * WIKRT_VALSIZE, WIKRT_OTAG_OPVAL + WIKRT_OPVAL_LAZYKF),
               a + 5 * WIKRT_VALSIZE, Fst(c1, c1.val)),
               wikrt_vaddr(c1.val), wikrt_tag_addr(WIKRT_O, a))

\* wikrt_quote
wikrt_quote(c) == QuoteR(Reserve(c, 3 * WIKRT_CELLSIZE))

\* wikrt_intro_id_block
wikrt_intro_id_block(c) == DoA(Do(c, "intro_empty_list"), "wrap_otag", WIKRT_OTAG_BLOCK)

\* wikrt_peek_block: the address of the block header on top, or 0 (NULL)
HasBlock(c) ==
    /\ wikrt_p(c.val)
    /\ wikrt_o(Fst(c, c.val))
    /\ wikrt_otag_block(rd(c, wikrt_vaddr(Fst(c, c.val))))
PeekAddr(c) == IF HasBlock(c) THEN wikrt_vaddr(Fst(c, c.val)) ELSE 0
wikrt_peek_block(c) == IF HasBlock(c) THEN c ELSE wikrt_set_error(c, "ETYPE")

\* wikrt_block_quote_inline_attrib
wikrt_block_quote_inline_attrib(c, attrib) ==
    DoA(Do(DoA(Do(Do(DoA(Do(c, "intro_empty_list"),
                         "intro_op", ACCEL_INLINE),
                     "cons"),
                  "wswap"),
               "wrap_otag", WIKRT_OTAG_OPVAL + WIKRT_OPVAL_LAZYKF),
           "cons"),
        "wrap_otag", WIKRT_OTAG_BLOCK + attrib)

\* the bits of ~(WIKRT_SAFE_BLOCK_ATTRIBS | WIKRT_OTAG_BLOCK) set in w
UnsafeAttribs(w) ==
    (w - (w % 1024)) + BitAnd(w % 256, 255 - WIKRT_OTAG_BLOCK)

\* an attribution that always sets the bit on the block it finds
wikrt_block_attrib_or(c, attrib) ==
    IF PeekAddr(c) = 0 THEN wikrt_peek_block(c)
    ELSE wr(c, PeekAddr(c), BitOr(rd(c, PeekAddr(c)), attrib))

\* wikrt_block_attrib
wikrt_block_attrib(c, attrib) ==
    IF attrib % 256 # 0 THEN Abort(c, "assert: attrib overwrites the otag byte")
    ELSE IF PeekAddr(c) = 0 THEN wikrt_peek_block(c)
    ELSE IF UnsafeAttribs(attrib) = 0 \/ UnsafeAttribs(rd(c, PeekAddr(c))) = 0
         THEN wr(c, PeekAddr(c), BitOr(rd(c, PeekAddr(c)), attrib))
    ELSE DoA(c, "block_quote_inline_attrib", attrib)

wikrt_block_aff(c)  == DoA(c, "block_attrib", WIKRT_BLOCK_AFFINE)
wikrt_block_rel(c)  == DoA(c, "block_attrib", WIKRT_BLOCK_RELEVANT)
wikrt_block_lazy(c) == DoA(c, "block_attrib", WIKRT_BLOCK_LAZY)
wikrt_block_fork(c) == DoA(c, "block_attrib", WIKRT_BLOCK_FORK)

\* wikrt_hide_block_decorators
wikrt_hide_block_decorators(c) ==
    IF PeekAddr(c) = 0 THEN wikrt_peek_block(c)
    ELSE IF UnsafeAttribs(rd(c, PeekAddr(c))) = 0 THEN c
    ELSE DoA(c, "block_quote_inline_attrib", 0)

WIKRT_SIZE_MAX == 2147483647
\* the loop of wikrt_scan_to_block_end from the word at address list:
\* the address of the terminator, 0 (NULL) when the effort runs out,
\* -1 when the abort is reached
RECURSIVE ScanLoop_all(_, _, _)
\* a scan that does not count its effort
ScanLoop_all(c, list, effort) ==
    IF wikrt_pl(rd(c, list))
    THEN ScanLoop_all(c, wikrt_vaddr(rd(c, list)) + WIKRT_VALSIZE, effort)
    ELSE IF rd(c, list) = WIKRT_UNIT_INR THEN list
    ELSE -1

RECURSIVE ScanLoop(_, _, _)
ScanLoop(c, list, effort) ==
    IF wikrt_pl(rd(c, list))
    THEN IF effort > 0
         THEN ScanLoop(c, wikrt_vaddr(rd(c, list)) + WIKRT_VALSIZE, effort - 1)
         ELSE 0
    ELSE IF rd(c, list) = WIKRT_UNIT_INR THEN list
    ELSE -1

RECURSIVE ScanHops(_, _, _)
\* the times the do-while of wikrt_scan_to_block_end assigns list: the
\* body advances before the effort is tested
ScanHops(c, list, effort) ==
    IF wikrt_pl(rd(c, list))
    THEN 1 + (IF effort > 0
              THEN ScanHops(c, wikrt_vaddr(rd(c, list)) + WIKRT_VALSIZE, effort - 1)
              ELSE 0)
    ELSE 0

\* wikrt_scan_to_block_end: the pointer returned is left in rv
wikrt_scan_to_block_end(c, effort) ==
    IF PeekAddr(c) = 0 THEN [wikrt_peek_block(c) EXCEPT !.rv = 0]
    ELSE IF ScanLoop(c, PeekAddr(c) + WIKRT_VALSIZE, effort) = -1
    THEN Abort(c, "unhandled extension to opslist model")
    ELSE [c EXCEPT !.rv = ScanLoop(c, PeekAddr(c) + WIKRT_VALSIZE, effort)]

smallfn == 15

\* the end of the concatenation of wikrt_compose
ComposeFlags(c5, pabe, pfnab, pfnbc) ==
    [wr(c5, pfnbc, BitOr(rd(c5, pfnbc), rd(c5, pfnab)))
       EXCEPT !.val = rd(c5, pabe + WIKRT_VALSIZE)]

\* a concatenation without the second swap
ComposeCat_one(c3, eoab) ==
    LET pabe  == wikrt_vaddr(c3.val)
        pbe   == wikrt_vaddr(rd(c3, pabe + WIKRT_VALSIZE))
        pfnab == wikrt_vaddr(rd(c3, pabe))
        pfnbc == wikrt_vaddr(rd(c3, pbe))
    IN ComposeFlags(wikrt_pval_swap(c3, eoab, pfnbc + WIKRT_VALSIZE), pabe, pfnab, pfnbc)

\* the concatenation of wikrt_compose
ComposeCat(c3, eoab) ==
    LET pabe  == wikrt_vaddr(c3.val)
        pbe   == wikrt_vaddr(rd(c3, pabe + WIKRT_VALSIZE))
        pfnab == wikrt_vaddr(rd(c3, pabe))
        pfnbc == wikrt_vaddr(rd(c3, pbe))
    IN ComposeFlags(wikrt_pval_swap(wikrt_pval_swap(c3, eoab, pfnbc + WIKRT_VALSIZE),
                                    pfnab + WIKRT_VALSIZE, pfnbc + WIKRT_VALSIZE),
                    pabe, pfnab, pfnbc)

\* wikrt_compose after the scans (c3)
ComposeScanned(c3) ==
    IF Aborted(c3) \/ wikrt_has_error(c3) THEN c3
    ELSE IF c3.rv = 0 \/ rd(c3, c3.rv) # WIKRT_UNIT_INR THEN Abort(c3, "assert: NULL != eoab")
    ELSE ComposeCat(c3, c3.rv)

\* wikrt_compose after the first scan (r1)
ComposeRescan(r1) ==
    IF Aborted(r1) \/ r1.rv # 0 THEN r1
    ELSE DoA(DoA(r1, "block_quote_inline_attrib", 0), "scan_to_block_end", WIKRT_SIZE_MAX)

\* wikrt_compose
wikrt_compose(c) ==
    ComposeScanned(ComposeRescan(
        DoA(Do(Do(Do(Do(c, "wswap"), "hide_block_decorators"), "wswap"),
               "hide_block_decorators"),
            "scan_to_block_end", smallfn)))

----------------------------------------------------------------------------
(* The value a word denotes, as a tree: what an observer reading the value *)
(* through the API can see, independent of where its cells lie.            *)

RECURSIVE ValOf(_, _)
RECURSIVE ArrayOf(_, _, _)
ArrayOf(c, a, n) ==
    IF n = 0 THEN <<>> ELSE << ValOf(c, rd(c, a)) >> \o ArrayOf(c, a + WIKRT_VALSIZE, n - 1)
ValOf(c, v) ==
    LET tag == wikrt_vtag(v)
        a   == wikrt_vaddr(v)
        pr  == << "pair", ValOf(c, rd(c, a)), ValOf(c, rd(c, a + WIKRT_VALSIZE)) >>
        hd  == rd(c, a)
        tg  == LOBYTE(hd)
    IN CASE tag = WIKRT_I  -> << "int", wikrt_v2i(v) >>
         [] tag = WIKRT_U  -> IF v = WIKRT_UNIT THEN << "unit" >> ELSE << "const", v >>
         [] tag = WIKRT_UL -> IF v = WIKRT_UNIT_INL THEN << "inl", << "unit" >> >>
                                                    ELSE << "const", v >>
         [] tag = WIKRT_UR -> IF v = WIKRT_UNIT_INR THEN << "inr", << "unit" >> >>
                                                    ELSE << "const", v >>
         [] tag = WIKRT_P  -> pr
         [] tag = WIKRT_PL -> << "inl", pr >>
         [] tag = WIKRT_PR -> << "inr", pr >>
         [] OTHER ->
              IF tg \in SimpleOtags
              THEN << "obj", hd, ValOf(c, rd(c, a + WIKRT_VALSIZE)) >>
              ELSE IF tg = WIKRT_OTAG_SEAL
              THEN << "seal", MemGet(c, a + WIKRT_CELLSIZE, hd \div 256),
                      ValOf(c, rd(c, a + WIKRT_VALSIZE)) >>
              ELSE IF tg = WIKRT_OTAG_BINARY
              THEN << "binary", MemGet(c, rd(c, a + 3 * WIKRT_VALSIZE),
                                          rd(c, a + 2 * WIKRT_VALSIZE)),
                      ValOf(c, rd(c, a + WIKRT_VALSIZE)) >>
              ELSE IF tg = WIKRT_OTAG_ARRAY
              THEN << "array", ArrayOf(c, rd(c, a + 3 * WIKRT_VALSIZE),
                                          rd(c, a + 2 * WIKRT_VALSIZE)),
                      ValOf(c, rd(c, a + WIKRT_VALSIZE)) >>
              ELSE IF tg = WIKRT_OTAG_OPTOK
              THEN << "optok", MemGet(c, a + WIKRT_VALSIZE, hd \div 256) >>
              ELSE IF tg = WIKRT_OTAG_TEXT
              THEN << "text", rd(c, a + 2 * WIKRT_VALSIZE) \div 65536,
                      MemGet(c, rd(c, a + 3 * WIKRT_VALSIZE),
                                rd(c, a + 2 * WIKRT_VALSIZE) % 65536),
                      ValOf(c, rd(c, a + WIKRT_VALSIZE)) >>
              ELSE << "unknown", hd >>

\* the value register as a tree
ValReg(c) == ValOf(c, c.val)

----------------------------------------------------------------------------
(* The functions by name.  An op is a record with the name of the function *)
(* and its argument (0 where it takes none).  A context that has aborted   *)
(* stays as it is: the process is gone.                                    *)

ApplyFn(c, op) ==
    CASE op.name = "intro_unit"     -> wikrt_intro_unit(c)
      [] op.name = "intro_i32"      -> wikrt_intro_i32(c, op.arg)
      [] op.name = "elim_unit"      -> wikrt_elim_unit(c)
      [] op.name = "wswap"          -> wikrt_wswap(c)
      [] op.name = "zswap"          -> wikrt_zswap(c)
      [] op.name = "assocl"         -> wikrt_assocl(c)
      [] op.name = "assocr"         -> wikrt_assocr(c)
      [] op.name = "swap"           -> wikrt_accel_swap(c)
      [] op.name = "wrap_sum"       -> wikrt_wrap_sum(c, op.arg)
      [] op.name = "unwrap_sum"     -> wikrt_unwrap_sum(c)
      [] op.name = "sum_swap"       -> wikrt_accel_sum_swap(c)
      [] op.name = "sum_distrib"    -> wikrt_sum_distrib(c)
      [] op.name = "sum_factor"     -> wikrt_sum_factor(c)
      [] op.name = "int_add"        -> wikrt_int_add(c)
      [] op.name = "int_mul"        -> wikrt_int_mul(c)
      [] op.name = "int_neg"        -> wikrt_int_neg(c)
      [] op.name = "int_div"        -> wikrt_int_div(c)
      [] op.name = "copy"           -> wikrt_copy(c)
      [] op.name = "drop"           -> wikrt_drop(c)
      [] op.name = "trash"          -> wikrt_trash(c)
      [] op.name = "quote"          -> wikrt_quote(c)
      [] op.name = "intro_id_block" -> wikrt_intro_id_block(c)
      [] op.name = "block_aff"      -> wikrt_block_aff(c)
      [] op.name = "block_rel"      -> wikrt_block_rel(c)
      [] op.name = "block_lazy"     -> wikrt_block_lazy(c)
      [] op.name = "block_fork"     -> wikrt_block_fork(c)
      [] op.name = "compose"        -> wikrt_compose(c)
      [] op.name = "cx_reset"       -> wikrt_cx_reset(c)
      [] op.name = "cx_gc"          -> wikrt_cx_gc(c)
      [] op.name = "peek_mem_stats" -> wikrt_peek_mem_stats(c)
      \* functions the API functions call
      [] op.name = "copy_r"         -> wikrt_copy_r(c, op.arg)
      [] op.name = "copy_m"         -> wikrt_copy_m(c)
      [] op.name = "mem_compact"    -> wikrt_mem_compact(c)
      [] op.name = "mem_gc_then_reserve" -> wikrt_mem_gc_then_reserve(c, op.arg)
      [] op.name = "mem_reserve"    -> wikrt_mem_reserve(c, op.arg)
      [] op.name = "intro_smallval" -> wikrt_intro_smallval(c, op.arg)
      [] op.name = "intro_empty_list" -> wikrt_intro_empty_list(c)
      [] op.name = "intro_op"       -> wikrt_intro_op(c, op.arg)
      [] op.name = "wrap_otag"      -> wikrt_wrap_otag(c, op.arg)
      [] op.name = "wrap_sum_p"     -> wikrt_wrap_sum_p(c, op.arg)
      [] op.name = "unwrap_sum_p"   -> wikrt_unwrap_sum_p(c)
      [] op.name = "expand_sum_p"   -> wikrt_expand_sum_p(c)
      [] op.name = "read_binary"    -> wikrt_read_binary(c, op.arg)
      [] op.name = "cons"           -> wikrt_cons(c)
      [] op.name = "intro_binary"   -> wikrt_intro_binary(c, op.arg)
      [] op.name = "intro_text"     -> wikrt_intro_text(c, op.arg)
      [] op.name = "wrap_seal"      -> wikrt_wrap_seal(c, op.arg)
      [] op.name = "unwrap_seal"    -> wikrt_unwrap_seal(c)
      [] op.name = "cons_binary_chunk" -> wikrt_cons_binary_chunk(c, op.arg)
      [] op.name = "cons_array_chunk"  -> cons_array_chunk(c, op.arg)
      [] op.name = "drop_txn"       -> wikrt_drop_txn(c)
      [] op.name = "block_attrib"   -> wikrt_block_attrib(c, op.arg)
      [] op.name = "block_quote_inline_attrib" -> wikrt_block_quote_inline_attrib(c, op.arg)
      [] op.name = "hide_block_decorators" -> wikrt_hide_block_decorators(c)
      [] op.name = "scan_to_block_end" -> wikrt_scan_to_block_end(c, op.arg)

Apply(c, op) == IF Aborted(c) THEN c ELSE ApplyFn(c, op)

\* a sequence of calls
RECURSIVE RunOps(_, _)
RunOps(c, ops) ==
    IF Aborted(c) \/ ops = <<>> THEN c ELSE RunOps(Apply(c, Head(ops)), Tail(ops))

\* the context at the return of an API call: the locals are gone
Returned(c) ==
    [c EXCEPT !.ulr = "INL", !.ub = 0, !.sum = "INL", !.ss = 0, !.rv = 0, !.cs = 0,
              !.buf = << >>]

----------------------------------------------------------------------------
(* Specification PrimSpec: a client calls the primitives one after another *)
(* on one context.  The run starts after one of a few call sequences that  *)
(* build the stacks the primitives are about, and continues with at most   *)
(* MaxSteps further calls of any primitive.                                *)

MaxSteps == 2

\* short names for the calls of the start sequences
IU  == Op("intro_unit", 0)
I1  == Op("intro_i32", 1)
I2  == Op("intro_i32", 2)
IDB == Op("intro_id_block", 0)
AFF == Op("block_aff", 0)
REL == Op("block_rel", 0)
LZY == Op("block_lazy", 0)
QT  == Op("quote", 0)
WS  == Op("wswap", 0)
AL  == Op("assocl", 0)
INL == Op("wrap_sum", "INL")
INR == Op("wrap_sum", "INR")

StartSeqs ==
    { << >>,
      << IU, IU >>,
      << IU, I1, I2 >>,
      << IU, I1, INL, I2 >>,
      << IU, I1, I2, AL, INR >>,
      << IU, Op("int_add", 0) >>,
      << IU, IDB, AFF >>,
      << IU, IDB, REL >>,
      << IU, IDB, AFF, QT >>,
      << IU, IDB, REL, QT >>,
      << IU, IDB, REL, IDB, AFF, QT, AL >>,
      << IU, IDB, AFF, QT, IDB, REL, AL >>,
      << IU, IDB, AFF, Op("trash", 0) >>,
      << IU, IDB, IDB, LZY >>,
      << IU, IDB, REL, IDB, AFF >> }

\* an int32 beyond the small integers
BigInt == WIKRT_SMALLINT_MAX + 1

InitPrim ==
    /\ cx \in { Returned(RunOps(cx_create, s)) : s \in StartSeqs }
    /\ p = << >>
    /\ rbuf = << >>
    /\ pcp = "idle"
    /\ res = Op("start", 0)
    /\ g = [n |-> 0, pre |-> "OK", first |-> cx.ecode]

\* one call, op, with the stack garbage u it may read.  res is the call
\* made last; g.pre is the error code before it, g.first the first code
\* latched since the last reset.
CallU(op, u) ==
    /\ g.n < MaxSteps
    /\ ~Aborted(cx)
    /\ cx' = Returned(Apply([cx EXCEPT !.ulr = u, !.sum = u], op))
    /\ res' = op
    /\ g' = [n |-> g.n + 1, pre |-> cx.ecode,
             first |-> IF op.name = "cx_reset" THEN "OK"
                       ELSE IF g.first = "OK" THEN cx'.ecode ELSE g.first]
    /\ UNCHANGED <<p, rbuf, pcp>>

Call(op) == CallU(op, "INL")
Call0(name) == Call(Op(name, 0))

IntroUnit    == /\ Call0("intro_unit")
IntroI32     == /\ \E n \in {1, 2, BigInt} : Call(Op("intro_i32", n))
ElimUnit     == /\ Call0("elim_unit")
Wswap        == /\ Call0("wswap")
Zswap        == /\ Call0("zswap")
Assocl       == /\ Call0("assocl")
Assocr       == /\ Call0("assocr")
Swap         == /\ Call0("swap")
WrapSum      == /\ \E lr \in SumTags : Call(Op("wrap_sum", lr))
UnwrapSum    == /\ Call0("unwrap_sum")
SumDistrib   == /\ \E u \in SumGarbage : CallU(Op("sum_distrib", 0), u)
SumFactor    == /\ \E u \in SumGarbage : CallU(Op("sum_factor", 0), u)
IntAdd       == /\ Call0("int_add")
IntMul       == /\ Call0("int_mul")
IntNeg       == /\ Call0("int_neg")
Copy         == /\ Call0("copy")
Drop         == /\ Call0("drop")
Trash        == /\ Call0("trash")
Quote        == /\ Call0("quote")
IntroIdBlock == /\ Call0("intro_id_block")
BlockAff     == /\ Call0("block_aff")
BlockRel     == /\ Call0("block_rel")
BlockLazy    == /\ Call0("block_lazy")
Compose      == /\ Call0("compose")
CxReset      == /\ Call0("cx_reset")
CxGc         == /\ Call0("cx_gc")

NextPrim ==
    \/ IntroUnit \/ IntroI32 \/ ElimUnit \/ Wswap \/ Zswap \/ Assocl \/ Assocr \/ Swap
    \/ WrapSum \/ UnwrapSum \/ SumDistrib \/ SumFactor
    \/ IntAdd \/ IntMul \/ IntNeg
    \/ Copy \/ Drop \/ Trash
    \/ Quote \/ IntroIdBlock \/ BlockAff \/ BlockRel \/ BlockLazy \/ Compose
    \/ CxReset \/ CxGc

PrimSpec == InitPrim /\ [][NextPrim]_vars

----------------------------------------------------------------------------
(* Properties of PrimSpec.                                                 *)

\* the step is a call of the function name
Called(name) == res'.name = name /\ g'.n = g.n + 1

\* the value on top of the stack of context c, as a tree
TopVal(c) == ValOf(c, Fst(c, c.val))
\* the rest of the stack below the top value
RestVal(c) == ValOf(c, Snd(c, c.val))

RECURSIVE TreeSS(_)
RECURSIVE ArraySS(_)
\* The summary of a tree: the flags of the BLOCK and TRASH headers (and the
\* PEND mark) that are not beneath an OPVAL with LAZYKF set.
TreeSS(t) ==
    CASE t[1] = "pair" -> BitOr(TreeSS(t[2]), TreeSS(t[3]))
      [] t[1] \in { "inl", "inr" } -> TreeSS(t[2])
      [] t[1] = "obj" ->
           IF LOBYTE(t[2]) \in { WIKRT_OTAG_BLOCK, WIKRT_OTAG_TRASH }
           THEN BitOr(wikrt_block_ss(t[2]), TreeSS(t[3]))
           ELSE IF LOBYTE(t[2]) = WIKRT_OTAG_PEND THEN BitOr(WIKRT_SS_PEND, TreeSS(t[3]))
           ELSE IF LOBYTE(t[2]) = WIKRT_OTAG_OPVAL /\ wikrt_opval_hides_ss(t[2]) THEN 0
           ELSE TreeSS(t[3])
      [] t[1] = "binary" -> TreeSS(t[3])
      [] t[1] = "array" -> BitOr(ArraySS(t[2]), TreeSS(t[3]))
      [] OTHER -> 0
ArraySS(ts) == IF ts = << >> THEN 0 ELSE BitOr(TreeSS(Head(ts)), ArraySS(Tail(ts)))

RECURSIVE BlockSS(_, _)
RECURSIVE ArrayBlockSS(_, _)
\* The flags of the BLOCK headers of a tree, and of no other object: of
\* those not beneath an OPVAL with LAZYKF set, or (deep) of all of them.
BlockSS(t, deep) ==
    CASE t[1] = "pair" -> BitOr(BlockSS(t[2], deep), BlockSS(t[3], deep))
      [] t[1] \in { "inl", "inr" } -> BlockSS(t[2], deep)
      [] t[1] = "obj" ->
           IF LOBYTE(t[2]) = WIKRT_OTAG_BLOCK
           THEN BitOr(wikrt_block_ss(t[2]), BlockSS(t[3], deep))
           ELSE IF ~deep /\ LOBYTE(t[2]) = WIKRT_OTAG_OPVAL /\ wikrt_opval_hides_ss(t[2])
           THEN 0
           ELSE BlockSS(t[3], deep)
      [] t[1] = "binary" -> BlockSS(t[3], deep)
      [] t[1] = "array" -> BitOr(ArrayBlockSS(t[2], deep), BlockSS(t[3], deep))
      [] OTHER -> 0
ArrayBlockSS(ts, deep) ==
    IF ts = << >> THEN 0
    ELSE BitOr(BlockSS(Head(ts), deep), ArrayBlockSS(Tail(ts), deep))

HasAff(ss) == BitAnd(ss, WIKRT_SS_AFF) # 0
HasRel(ss) == BitAnd(ss, WIKRT_SS_REL) # 0

\* C3: the error register is sticky.  A call other than wikrt_cx_reset made
\* while a code is latched leaves that code latched, whatever the call
\* itself fails with; wikrt_cx_reset sets the code to OK and the four
\* registers to their initial values.
C3_ErrorSticky ==
    [][ /\ (wikrt_has_error(cx) /\ ~Called("cx_reset")) => cx'.ecode = cx.ecode
        /\ Called("cx_reset") =>
              /\ cx'.ecode = "OK"
              /\ cx'.val = WIKRT_REG_VAL_INIT
              /\ cx'.cc = WIKRT_REG_CC_INIT
              /\ cx'.pc = WIKRT_REG_PC_INIT
              /\ cx'.txn = WIKRT_REG_TXN_INIT ]_vars

\* C3 happens: wikrt_intro_i32 of an integer that is not small (which
\* latches IMPL on a clean context) was called while ETYPE was latched,
\* and ETYPE is still the code.
C3_Witness ==
    /\ res = Op("intro_i32", BigInt)
    /\ g.pre = "ETYPE"
    /\ cx.ecode = "ETYPE"

\* the primitives C4 lists
C4_Prims ==
    { "wswap", "zswap", "assocl", "assocr", "swap", "sum_distrib", "sum_factor",
      "wrap_sum", "unwrap_sum", "int_add", "int_mul", "int_neg",
      "copy", "drop", "quote", "compose" }

\* C4: once an error is latched, a call of a primitive leaves the value
\* register and the arena exactly as they were.
C4_NoOpAfterError ==
    [][ (wikrt_has_error(cx) /\ res'.name \in C4_Prims /\ g'.n = g.n + 1) =>
            /\ cx'.val = cx.val
            /\ cx'.heap = cx.heap
            /\ cx'.mem = cx.mem
            /\ cx'.alloc = cx.alloc ]_vars

\* C5: when sum_distrib, sum_factor or compose rejects its argument (the
\* context had no error before the call and has ETYPE after it), the value
\* register holds the value it held before the call.
C5_RejectLeavesValue ==
    [][ ( /\ res'.name \in { "sum_distrib", "sum_factor", "compose" }
          /\ g'.n = g.n + 1
          /\ cx.ecode = "OK"
          /\ cx'.ecode = "ETYPE"
          /\ ~Aborted(cx') )
        => ValReg(cx') = ValReg(cx) ]_vars

\* a copy or a drop that ran on a pair, from a context without error, and
\* whose reservation did not fail
CopyRan == Called("copy") /\ cx.ecode = "OK" /\ wikrt_p(cx.val) /\ cx'.ecode # "CXFULL"
DropRan == Called("drop") /\ cx.ecode = "OK" /\ wikrt_p(cx.val)
\* the structural work of the call is done
CopyPresent == ValReg(cx') = << "pair", TopVal(cx), ValReg(cx) >>
DropRemoved == ValReg(cx') = RestVal(cx)

\* C9 as stated: copy of a value with an AFFINE block not beneath a LAZYKF
\* OPVAL latches ETYPE with the copy present; drop of a value with a
\* RELEVANT block latches ETYPE with the value removed; copy or drop of a
\* value with no such block latches no error.
C9_AsStated ==
    [][ /\ CopyRan =>
             IF HasAff(BlockSS(TopVal(cx), FALSE))
             THEN cx'.ecode = "ETYPE" /\ CopyPresent
             ELSE cx'.ecode = "OK"
        /\ DropRan =>
             IF HasRel(BlockSS(TopVal(cx), TRUE))
             THEN cx'.ecode = "ETYPE" /\ DropRemoved
             ELSE cx'.ecode = "OK" ]_vars

\* C9, amended: with no error latched before and the reservation
\* succeeding, copy latches ETYPE exactly when a BLOCK or TRASH header with
\* AFFINE set lies in the top value outside every LAZYKF OPVAL, and drop
\* latches ETYPE exactly when such a header has RELEVANT set; in every case
\* the copy is on the stack above the original, respectively the value is
\* removed, and the process has not aborted.
C9_Substructure ==
    [][ /\ CopyRan =>
             /\ ~Aborted(cx')
             /\ CopyPresent
             /\ cx'.ecode = IF HasAff(TreeSS(TopVal(cx))) THEN "ETYPE" ELSE "OK"
        /\ DropRan =>
             /\ ~Aborted(cx')
             /\ DropRemoved
             /\ cx'.ecode = IF HasRel(TreeSS(TopVal(cx))) THEN "ETYPE" ELSE "OK" ]_vars

\* C9 happens: a copy has just latched ETYPE on a clean context and the
\* stack holds the affine value twice.
C9_Witness ==
    /\ res.name = "copy"
    /\ g.pre = "OK"
    /\ cx.ecode = "ETYPE"
    /\ wikrt_p(cx.val) /\ wikrt_p(Snd(cx, cx.val))
    /\ TopVal(cx) = ValOf(cx, Fst(cx, Snd(cx, cx.val)))
    /\ HasAff(TreeSS(TopVal(cx)))

\* the summary wikrt_copy_m computes for the top value of cx, or -1 where
\* the copy does not run to its end
CopySS ==
    IF ValReg(Do(cx, "copy_m")) = << "pair", TopVal(cx), ValReg(cx) >>
    THEN Do(cx, "copy_m").ss ELSE -1
\* the summary wikrt_drop and wikrt_trash compute for the top value of cx
DropSS == wikrt_drop_sv(cx, Fst(cx, cx.val), TRUE)

\* C10 as stated: for copy and for drop the summary is the union of the
\* flags of exactly the blocks not beneath a LAZYKF OPVAL.
C10_AsStated ==
    (~Aborted(cx) /\ wikrt_p(cx.val)) =>
        /\ DropSS = BlockSS(TopVal(cx), FALSE)
        /\ CopySS \in { -1, BlockSS(TopVal(cx), FALSE) }

\* C10, amended: for copy and for drop the summary is the union of the
\* flags of exactly the BLOCK and TRASH headers not beneath a LAZYKF OPVAL:
\* headers beneath one contribute nothing, headers walked after a hidden
\* subtree still contribute.
C10_HiddenFlags ==
    (~Aborted(cx) /\ wikrt_p(cx.val)) =>
        /\ DropSS = TreeSS(TopVal(cx))
        /\ CopySS \in { -1, TreeSS(TopVal(cx)) }

\* a block whose ops are one quoted value, itself an AFFINE block
IsQuotedAff(t) ==
    /\ t[1] = "obj" /\ LOBYTE(t[2]) = WIKRT_OTAG_BLOCK
    /\ t[3][1] = "inl" /\ t[3][2][1] = "pair"
    /\ t[3][2][2][1] = "obj"
    /\ LOBYTE(t[3][2][2][2]) = WIKRT_OTAG_OPVAL
    /\ wikrt_opval_hides_ss(t[3][2][2][2])
    /\ HasAff(BlockSS(t[3][2][2][3], TRUE))
\* a RELEVANT block
IsRel(t) == t[1] = "obj" /\ LOBYTE(t[2]) = WIKRT_OTAG_BLOCK /\ HasRel(wikrt_block_ss(t[2]))

\* C10 happens: the top value is a pair of a RELEVANT block and a block
\* that quotes an AFFINE one; both walks take the second component first,
\* so the RELEVANT header is walked after the hidden subtree; wikrt_copy
\* has just made this value without an error, and both summaries of it are
\* RELEVANT alone.
C10_Witness ==
    /\ res.name = "copy" /\ g.pre = "OK" /\ cx.ecode = "OK"
    /\ ~Aborted(cx) /\ wikrt_p(cx.val)
    /\ TopVal(cx)[1] = "pair"
    /\ IsRel(TopVal(cx)[2])
    /\ IsQuotedAff(TopVal(cx)[3])
    /\ CopySS = WIKRT_SS_REL
    /\ DropSS = WIKRT_SS_REL

----------------------------------------------------------------------------
(* The parser, wikrt_parse.c.  It is written against a runtime whose       *)
(* primitives return a wikrt_err instead of latching it; the primitives    *)
(* are those above, and the status a call returns is the code it leaves in *)
(* ecode.  The parser runs with ecode = "OK" and Quiet discards the status *)
(* where the parser does.  A parser function of (cx, p) is an operator     *)
(* from the context c and the parse state p to a record of both with the   *)
(* value st it returns.                                                    *)

WIKRT_PARSE_OP     == 0
WIKRT_PARSE_TXT    == 1
WIKRT_PARSE_TXT_LF == 2
WIKRT_PARSE_TOK    == 3

\* the buffer of wikrt_parse_state, in cells (1024 in the source)
ParseBuffCells == 1
WIKRT_PARSE_BUFFSZ == WIKRT_CELLSIZE * ParseBuffCells
\* bytes read per round of wikrt_text_to_block (30 * 1000 in the source)
WIKRT_PARSE_READSZ == 4
UTF8_MAX_CP_SIZE == 4

PS(c, ps, st) == [c |-> c, p |-> ps, st |-> st]
Quiet(c) == [c EXCEPT !.ecode = "OK"]

\* the declaration "wikrt_parse_state p;": no field is read before it is set
ParseState0 == [type |-> WIKRT_PARSE_OP, depth |-> 0, buffsz |-> 0, charct |-> 0,
                buff |-> << >>]

\* wikrt_intro_parse after the reservation (c1)
IntroParseR(c1, ps) ==
    IF ~MemReserved(c1, 2 * WIKRT_CELLSIZE) THEN PS(Quiet(c1), ps, FALSE)
    ELSE PS(wikrt_intro_r(wikrt_intro_r(c1, WIKRT_UNIT), WIKRT_UNIT_INR),
            [ps EXCEPT !.type = WIKRT_PARSE_OP, !.depth = 0], TRUE)

\* wikrt_intro_parse
wikrt_intro_parse(c, ps) == IntroParseR(Reserve(c, 2 * WIKRT_CELLSIZE), ps)

\* the loop of wikrt_reverse_opslist
RECURSIVE ReverseOps(_, _, _)
ReverseOps(c, hd, tl) ==
    IF hd = WIKRT_UNIT_INR THEN wr(c, wikrt_vaddr(c.val), tl)
    ELSE IF ~wikrt_pl(hd) THEN Abort(c, "wikrt_reverse_opslist: assert(wikrt_pl(hd))")
    ELSE ReverseOps(wr(c, wikrt_vaddr(hd) + WIKRT_VALSIZE, tl), Snd(c, hd), hd)

\* wikrt_reverse_opslist
wikrt_reverse_opslist_none(c) == c
wikrt_reverse_opslist(c) == ReverseOps(c, Fst(c, c.val), WIKRT_UNIT_INR)

\* wikrt_flush_parse_text after the reservation (c1): the buffer at the old
\* c1.alloc, the header behind it
FlushR(c1, ps, szBuff) ==
    IF ~MemReserved(c1, szBuff + (2 * WIKRT_CELLSIZE)) THEN PS(Quiet(c1), ps, FALSE)
    ELSE PS(wr(wr(wr(wr(wr(MemPut(wikrt_alloc_r(c1, szBuff + (2 * WIKRT_CELLSIZE)),
                                  c1.alloc, ps.buff),
                           c1.alloc + szBuff, WIKRT_OTAG_TEXT),
                        c1.alloc + szBuff + WIKRT_VALSIZE, Fst(c1, c1.val)),
                     c1.alloc + szBuff + (2 * WIKRT_VALSIZE),
                     (ps.charct * 65536) + ps.buffsz),
                  c1.alloc + szBuff + (3 * WIKRT_VALSIZE), c1.alloc),
               wikrt_vaddr(c1.val), wikrt_tag_addr(WIKRT_O, c1.alloc + szBuff)),
            [ps EXCEPT !.buffsz = 0, !.charct = 0, !.buff = << >>], TRUE)

\* wikrt_flush_parse_text
wikrt_flush_parse_text(c, ps) ==
    IF ps.buffsz = 0 THEN PS(c, ps, TRUE)
    ELSE IF ~(ps.charct <= ps.buffsz /\ ps.buffsz <= 65535
              /\ ps.buffsz <= UTF8_MAX_CP_SIZE * ps.charct)
         THEN PS(Abort(c, "wikrt_flush_parse_text: sanity check"), ps, FALSE)
    ELSE FlushR(Reserve(c, wikrt_cellbuff(ps.buffsz) + (2 * WIKRT_CELLSIZE)), ps,
                wikrt_cellbuff(ps.buffsz))

\* wikrt_parser_write_char after the character is in the buffer (ps)
WriteCharP(c, ps) ==
    IF ps.buffsz >= WIKRT_PARSE_BUFFSZ - UTF8_MAX_CP_SIZE
    THEN wikrt_flush_parse_text(c, ps)
    ELSE PS(c, ps, TRUE)

\* wikrt_parser_write_char
wikrt_parser_write_char(c, ps, cp) ==
    WriteCharP(c, [ps EXCEPT !.charct = @ + 1,
                             !.buffsz = @ + Len(utf8_writecp_unsafe(cp)),
                             !.buff = @ \o utf8_writecp_unsafe(cp)])

\* wikrt_alloc_cellval_r(cx, v, WIKRT_O, otag, *v) with v the first slot of
\* the value register: the slot becomes the object (otag, *v)
AllocCellvalTop(c, otag) ==
    wr(wikrt_alloc_cellval_r(c, otag, Fst(c, c.val)),
       wikrt_vaddr(c.val), wikrt_tag_addr(WIKRT_O, c.alloc))

\* assert(WIKRT_OK == st) at the end of wikrt_fini_parse_opval_r
OpvalSt(c6) ==
    IF c6.ecode # "OK"
    THEN Abort(c6, "wikrt_fini_parse_opval_r: assert(WIKRT_OK == st)")
    ELSE c6

\* wikrt_fini_parse_opval_r
wikrt_fini_parse_opval_r(c) ==
    OpvalSt(DoA(Do(Do(Do(Do(Do(AllocCellvalTop(c, WIKRT_OTAG_OPVAL),
                               "wswap"), "assocr"), "zswap"), "wswap"), "assocl"),
                "wrap_sum", "INL"))

\* the loop of wikrt_reverse_text_chunks: the reversal of a chain of TEXT
\* chunks, as wikrt_reverse_binary_chunks reverses a chain of binaries
RECURSIVE ReverseChunks(_, _, _)
ReverseChunks(c, hd, text) ==
    IF hd = WIKRT_UNIT_INR THEN wr(c, wikrt_vaddr(c.val), text)
    ELSE IF ~(wikrt_o(hd) /\ LOBYTE(rd(c, wikrt_vaddr(hd))) = WIKRT_OTAG_TEXT)
    THEN Abort(c, "wikrt_reverse_text_chunks: assert, not a text chunk")
    ELSE ReverseChunks(wr(c, wikrt_vaddr(hd) + WIKRT_VALSIZE, text),
                       rd(c, wikrt_vaddr(hd) + WIKRT_VALSIZE), hd)

\* wikrt_reverse_text_chunks
wikrt_reverse_text_chunks(c) == ReverseChunks(c, Fst(c, c.val), WIKRT_UNIT_INR)

\* wikrt_fini_parse_text after the second reservation (c3)
FiniTextR(c3, ps) ==
    IF Aborted(c3) THEN PS(c3, ps, FALSE)
    ELSE IF ~MemReserved(c3, WIKRT_CELLSIZE) THEN PS(Quiet(c3), ps, FALSE)
    ELSE PS(wikrt_fini_parse_opval_r(c3), ps, TRUE)

\* wikrt_fini_parse_text after the flush (f)
FiniTextF(f) ==
    IF Aborted(f.c) \/ ~f.st THEN f
    ELSE FiniTextR(Reserve(wikrt_reverse_text_chunks(f.c), WIKRT_CELLSIZE), f.p)

\* wikrt_fini_parse_text
wikrt_fini_parse_text(c, ps) ==
    IF ps.type # WIKRT_PARSE_TXT_LF
    THEN PS(Abort(c, "wikrt_fini_parse_text: assert(WIKRT_PARSE_TXT_LF == p->type)"), ps, FALSE)
    ELSE FiniTextF(wikrt_flush_parse_text(c, ps))

\* wikrt_step_parse_char, state TOK, '}': the token object once its space
\* is reserved (c1); it lies at the old c1.alloc
TokR(c1, ps, optoksz) ==
    IF ~MemReserved(c1, WIKRT_CELLSIZE + optoksz) THEN PS(Quiet(c1), ps, "CXFULL")
    ELSE PS(Quiet(DoA(Do(wikrt_intro_r(MemPut(wr(wikrt_alloc_r(c1, optoksz), c1.alloc,
                                                 (ps.buffsz * 256) + WIKRT_OTAG_OPTOK),
                                              c1.alloc + WIKRT_VALSIZE, ps.buff),
                                       wikrt_tag_addr(WIKRT_O, c1.alloc)),
                         "assocl"), "wrap_sum", "INL")),
            [ps EXCEPT !.type = WIKRT_PARSE_OP], "OK")

\* state TOK, another character: it is in the buffer (ps)
TokChar(c, ps) ==
    PS(c, ps, IF ps.buffsz >= WIKRT_TOK_BUFFSZ THEN "TYPE_ERROR" ELSE "OK")

\* case WIKRT_PARSE_TOK
StepTok(c, ps, cp) ==
    IF cp = 125
    THEN IF ps.buffsz = 0 THEN PS(c, ps, "TYPE_ERROR")
         ELSE IF ~(ps.buffsz < WIKRT_TOK_BUFFSZ)
              THEN PS(Abort(c, "wikrt_step_parse_char: assert(p->buffsz < WIKRT_TOK_BUFFSZ)"),
                      ps, "OK")
         ELSE TokR(Reserve(c, WIKRT_CELLSIZE + wikrt_cellbuff(ps.buffsz + WIKRT_VALSIZE)),
                   ps, wikrt_cellbuff(ps.buffsz + WIKRT_VALSIZE))
    ELSE IF ~wikrt_token_char(cp) THEN PS(c, ps, "TYPE_ERROR")
    ELSE TokChar(c, [ps EXCEPT !.buffsz = @ + Len(utf8_writecp_unsafe(cp)),
                               !.buff = @ \o utf8_writecp_unsafe(cp)])

\* the status of a step from the bool f.st of the function it called, and
\* the parser state the step moves to when that succeeded
StepOf(f, type) ==
    IF Aborted(f.c) THEN f
    ELSE IF ~f.st THEN PS(f.c, f.p, "CXFULL")
    ELSE PS(f.c, [f.p EXCEPT !.type = type], "OK")

\* case WIKRT_PARSE_TXT_LF
StepTxtLf(c, ps, cp) ==
    IF cp = 32 THEN StepOf(wikrt_parser_write_char(c, ps, 10), WIKRT_PARSE_TXT)
    ELSE IF cp = 126 THEN StepOf(wikrt_fini_parse_text(c, ps), WIKRT_PARSE_OP)
    ELSE PS(c, ps, "TYPE_ERROR")

\* case WIKRT_PARSE_TXT
StepTxt(c, ps, cp) ==
    IF cp = 10 THEN PS(c, [ps EXCEPT !.type = WIKRT_PARSE_TXT_LF], "OK")
    ELSE IF ~wikrt_text_char(cp) THEN PS(c, ps, "TYPE_ERROR")
    ELSE StepOf(wikrt_parser_write_char(c, ps, cp), WIKRT_PARSE_TXT)

\* case WIKRT_PARSE_OP, ']' with depth >= 1, after wikrt_reverse_opslist (c2)
StepClose(c2, ps) ==
    IF Aborted(c2) THEN PS(c2, ps, "OK")
    ELSE PS(Quiet(wikrt_fini_parse_opval_r(AllocCellvalTop(c2, WIKRT_OTAG_BLOCK))), ps, "OK")

\* case WIKRT_PARSE_OP after the reservation (c1)
StepOpR(c1, ps, cp) ==
    IF ~MemReserved(c1, 2 * WIKRT_CELLSIZE) THEN PS(Quiet(c1), ps, "CXFULL")
    ELSE IF cp = 91
    THEN PS(Quiet(Do(wikrt_intro_r(c1, WIKRT_UNIT_INR), "assocl")),
            [ps EXCEPT !.depth = @ + 1], "OK")
    ELSE IF cp = 93
    THEN IF ps.depth < 1 THEN PS(c1, ps, "TYPE_ERROR")
         ELSE StepClose(wikrt_reverse_opslist(c1), [ps EXCEPT !.depth = @ - 1])
    ELSE IF cp = 123
    THEN PS(c1, [ps EXCEPT !.type = WIKRT_PARSE_TOK, !.buffsz = 0, !.charct = 0,
                           !.buff = << >>], "OK")
    ELSE IF cp = 34
    THEN PS(Quiet(Do(wikrt_intro_r(c1, WIKRT_UNIT_INR), "assocl")),
            [ps EXCEPT !.type = WIKRT_PARSE_TXT, !.buffsz = 0, !.charct = 0,
                       !.buff = << >>], "OK")
    ELSE IF cp < 128
    THEN IF wikrt_abc2op_ascii_table(cp) = OP_INVAL THEN PS(c1, ps, "TYPE_ERROR")
         ELSE PS(Quiet(DoA(Do(wikrt_intro_r(c1, wikrt_i2v(wikrt_abc2op_ascii_table(cp))),
                              "assocl"), "wrap_sum", "INL")), ps, "OK")
    ELSE PS(c1, ps, "TYPE_ERROR")

\* wikrt_step_parse_char
wikrt_step_parse_char(c, ps, cp) ==
    CASE ps.type = WIKRT_PARSE_TOK    -> StepTok(c, ps, cp)
      [] ps.type = WIKRT_PARSE_TXT_LF -> StepTxtLf(c, ps, cp)
      [] ps.type = WIKRT_PARSE_TXT    -> StepTxt(c, ps, cp)
      [] ps.type = WIKRT_PARSE_OP     -> StepOpR(Reserve(c, 2 * WIKRT_CELLSIZE), ps, cp)
      [] OTHER -> PS(Abort(c, "wikrt_step_parse_char: invalid parser state"), ps, "IMPL")

\* wikrt_drop(cx, NULL): the first item of the stack is removed and walked
\* with no summary asked for
wikrt_drop_null(c) ==
    IF ~wikrt_p(c.val) THEN wikrt_set_error(c, "ETYPE")
    ELSE IF wikrt_drop_sv(c, Fst(c, c.val), FALSE) = -1
         THEN Abort(c, "drop_sv: unrecognized tag")
    ELSE [c EXCEPT !.val = Snd(c, c.val)]

\* wikrt_fini_parse from the drop of the text on (c4)
FiniDrop(c4, ps, stackIsEmpty, textIsEmpty) ==
    IF (ps.depth = 0) /\ stackIsEmpty /\ (ps.type = WIKRT_PARSE_OP) /\ textIsEmpty
    THEN PS(Quiet(wikrt_drop_null(c4)), ps, "OK")
    ELSE PS(Quiet(wikrt_drop_null(Quiet(wikrt_drop_null(c4)))), ps, "TYPE_ERROR")

\* wikrt_fini_parse after the wswap (c4)
FiniSwapped(c4, ps, stackIsEmpty) ==
    FiniDrop(c4, ps, stackIsEmpty, Fst(c4, c4.val) = WIKRT_UNIT_INR)

\* wikrt_fini_parse after the assocl (c2): the cell at a, the first slot of
\* the value register, becomes the block object
FiniBlock(c2, ps, a) ==
    FiniSwapped(Quiet(Do(wr(wr(wr(c2, a + WIKRT_VALSIZE, rd(c2, a)), a, WIKRT_OTAG_BLOCK),
                            wikrt_vaddr(c2.val), wikrt_tag_addr(WIKRT_O, a)),
                         "wswap")),
                ps, rd(c2, a + WIKRT_VALSIZE) = WIKRT_UNIT)

\* wikrt_fini_parse after wikrt_reverse_opslist (c1)
FiniReversed(c2, ps) ==
    IF Aborted(c2) THEN PS(c2, ps, "OK")
    ELSE FiniBlock(c2, ps, wikrt_vaddr(Fst(c2, c2.val)))

\* wikrt_fini_parse
wikrt_fini_parse(c, ps) ==
    FiniReversed(Quiet(Do(wikrt_reverse_opslist(c), "assocl")), ps)

\* wikrt_value_is_utf8
wikrt_value_is_utf8(c, v) == wikrt_o(v) /\ wikrt_otag_utf8(rd(c, wikrt_vaddr(v)))

\* the index of the last byte of bytes that is no continuation byte
Cpf(bytes) ==
    IF \E i \in 1..Len(bytes) : bytes[i] \div 64 # 2
    THEN CHOOSE i \in 1..Len(bytes) :
            /\ bytes[i] \div 64 # 2
            /\ \A j \in (i + 1)..Len(bytes) : bytes[j] \div 64 = 2
    ELSE 1

\* the do-while loop of wikrt_putback_incomplete_utf8: the bytes from the
\* last down to index cpf go back onto the list, one at a time
RECURSIVE PutBack(_, _, _)
PutBack(c, bytes, cpf) ==
    IF Len(bytes) < cpf THEN c
    ELSE PutBack(Do(DoA(c, "intro_i32", bytes[Len(bytes)]), "cons"),
                 SubSeq(bytes, 1, Len(bytes) - 1), cpf)

\* wikrt_putback_incomplete_utf8 on the buffer c.buf
wikrt_putback_incomplete_utf8(c) ==
    IF c.buf = << >> THEN c
    ELSE IF Cpf(c.buf) + utf8_readcp_size(c.buf[Cpf(c.buf)]) = Len(c.buf) + 1 THEN c
    ELSE [PutBack(c, c.buf, Cpf(c.buf)) EXCEPT !.buf = SubSeq(c.buf, 1, Cpf(c.buf) - 1)]

\* the buffer after wikrt_read_binary wrote new at its start while old was
\* in it: *buffsz grows by Len(new); a byte never written holds ub
Overlay(old, new, ub) ==
    [i \in 1..(Len(old) + Len(new)) |->
        IF i <= Len(new) THEN new[i] ELSE IF i <= Len(old) THEN old[i] ELSE ub]

\* wikrt_read_text, the UTF8 branch after wikrt_read_binary (r); old is the
\* buffer before it
ReadTextUtf8(r, old) ==
    DoA(wikrt_putback_incomplete_utf8([r EXCEPT !.buf = Overlay(old, r.buf, r.ub)]),
        "wrap_otag", WIKRT_OTAG_UTF8)

RECURSIVE ReadTextLoop(_, _)

\* wikrt_read_text, the last branch after the unwrap and the wrap (w); lr0
\* is the sum tag of the caller
ReadTextExpand(w, lr, lr0, max) ==
    IF Aborted(w) THEN w
    ELSE IF lr = "INR" THEN [w EXCEPT !.sum = lr0]
    ELSE IF ~wikrt_pl(Fst(w, w.val)) THEN wikrt_set_error([w EXCEPT !.sum = lr0], "ETYPE")
    ELSE ReadTextLoop([w EXCEPT !.sum = lr0], max)

\* the same after the unwrap alone (u)
ReadTextUnwrapped(u, lr0, max) == ReadTextExpand(DoA(u, "wrap_sum_p", u.sum), u.sum, lr0, max)

\* the loop of wikrt_read_text: the bytes written so far are c.buf
ReadTextLoop(c, max) ==
    LET list == Fst(c, c.val)
        node == rd(c, wikrt_vaddr(list))
        cp   == wikrt_v2i(node)
        okTextChar == wikrt_smallint(node) /\ 0 <= cp /\ cp <= 1114111
                      /\ wikrt_text_char(cp)
    IN IF Aborted(c) THEN c
       ELSE IF wikrt_pl(list)
       THEN IF ~okTextChar THEN wikrt_set_error(c, "ETYPE")
            ELSE IF Len(c.buf) + Len(utf8_writecp_unsafe(cp)) > max THEN c
            ELSE ReadTextLoop([wr(c, wikrt_vaddr(c.val), Snd(c, list))
                                 EXCEPT !.buf = @ \o utf8_writecp_unsafe(cp)], max)
       ELSE IF wikrt_value_is_utf8(c, list)
       THEN ReadTextUtf8(DoA(wr(c, wikrt_vaddr(c.val), Snd(c, list)), "read_binary",
                             max - Len(c.buf)), c.buf)
       ELSE ReadTextUnwrapped(Do(DeclareLr(c), "unwrap_sum_p"), c.sum, max)

\* wikrt_read_text(cx, buff, &bytes, NULL) with *bytes = max on entry: the
\* bytes read are left in buf
wikrt_read_text(c, max) ==
    IF ~wikrt_p(c.val) THEN wikrt_set_error([c EXCEPT !.buf = << >>], "ETYPE")
    ELSE ReadTextLoop([c EXCEPT !.buf = << >>], max)

\* utf8_step_unsafe: the code point at the head of s
utf8_step_unsafe(s) == utf8_readcp_unsafe(SubSeq(s, 1, utf8_readcp_size(s[1])))
\* and the rest of s
utf8_step_rest(s) == SubSeq(s, utf8_readcp_size(s[1]) + 1, Len(s))

----------------------------------------------------------------------------
(* wikrt_text_to_block in steps.  A position is the context, the parse     *)
(* state, the status so far, the bytes of the round not yet parsed and the *)
(* place in the function: "idle" before the call, "loop" at the top of     *)
(* the do-while loop, "step" inside wikrt_step_parse, "done" after the     *)
(* return or the abort.                                                    *)

Pos(c, ps, st, buf, pc) ==
    IF Aborted(c) THEN [c |-> c, p |-> ps, st |-> "ABORT", rbuf |-> << >>, pcp |-> "done"]
    ELSE [c |-> c, p |-> ps, st |-> st, rbuf |-> buf, pcp |-> pc]

\* after wikrt_intro_parse (k)
TtbIntro(k) ==
    IF Aborted(k.c) \/ k.st THEN Pos(k.c, k.p, "running", << >>, "loop")
    ELSE Pos(Quiet(wikrt_drop_null(k.c)), k.p, "CXFULL", << >>, "done")

\* the entry of wikrt_text_to_block
TtbBegin(c, ps) ==
    IF ~wikrt_p(c.val) THEN Pos(c, ps, "TYPE_ERROR", << >>, "done")
    ELSE TtbIntro(wikrt_intro_parse(c, ps))

\* one round of the loop up to the test of bytes_read: the text swizzled to
\* the top, read, and swizzled back
TtbRead(c) ==
    Quiet(Do(Quiet(Do(Quiet(wikrt_read_text(Quiet(Do(Quiet(Do(c, "assocl")), "wswap")),
                                            WIKRT_PARSE_READSZ)),
                      "wswap")), "assocr"))

\* wikrt_fini_parse returned (f)
TtbFini(f) == Pos(f.c, f.p, f.st, << >>, "done")

\* wikrt_step_parse_char returned (k) with rest still to parse
TtbStep(k, rest) ==
    IF Aborted(k.c) THEN Pos(k.c, k.p, k.st, << >>, "done")
    ELSE IF k.st # "OK"
    THEN Pos(Quiet(wikrt_drop_null(Quiet(wikrt_drop_null(Quiet(wikrt_drop_null(k.c)))))),
             k.p, k.st, << >>, "done")
    ELSE Pos(k.c, k.p, "running", rest, IF rest = << >> THEN "loop" ELSE "step")

----------------------------------------------------------------------------
(* Specification ParseSpec: one call of wikrt_text_to_block on a context   *)
(* that holds (text * e).  The text is a list of code points; e is a stack *)
(* of g.fill units, which sets how much of the arena is in use.            *)

\* v w [ ] { } " LF SP ~ and two characters with no op: a, and one >= 128
Alphabet == { 118, 119, 91, 93, 123, 125, 34, 10, 32, 126, 97, 200 }
\* every text over Alphabet up to this length is parsed
MaxLen == 2

\* longer texts: blocks, tokens, literals, and one with a control code
LongTexts ==
    { << 91, 118, 93 >>, << 91, 91, 93, 93 >>, << 118, 91, 119, 93, 118 >>,
      << 118, 119, 118 >>, << 32, 10, 118, 119 >>, << 119, 118, 119, 118, 119 >>,
      << 123, 97, 125, 118 >>, << 118, 123, 97, 97, 125 >>, << 123, 97, 97, 97, 125 >>,
      << 123, 97, 97, 97, 97, 125 >>, << 123, 97, 200, 125 >>, << 123, 200, 200, 125 >>,
      << 34, 10, 126 >>, << 34, 97, 10, 126 >>, << 34, 97, 10, 32, 97, 10, 126 >>,
      << 34, 97, 97, 97, 97, 10, 126 >>, << 34, 97, 97, 97, 97, 97, 10, 126 >>,
      << 34, 200, 10, 126, 118 >>, << 34, 97, 10, 97 >>, << 34, 97, 10, 32 >>,
      << 91, 118, 119 >>, << 118, 93, 118 >>, << 118, 7 >>, << 34, 97, 7 >> }

Seqs(n) == UNION { [1..k -> Alphabet] : k \in 0..n }
Texts == Seqs(MaxLen) \cup LongTexts

\* the units of e: none, and two loads that leave the arena short
Fills == { 0, 14, 17 }

RECURSIVE TextOps(_)
\* the calls that push the text t as a list: the last code point first
TextOps(t) ==
    IF t = << >> THEN << Op("intro_empty_list", 0) >>
    ELSE TextOps(Tail(t)) \o << Op("intro_i32", Head(t)), Op("cons", 0) >>

RECURSIVE FillOps(_)
FillOps(n) == IF n = 0 THEN << >> ELSE << Op("intro_unit", 0) >> \o FillOps(n - 1)

\* a context with e alone, and with (text * e)
CxE(f) == Returned(RunOps(cx_create, FillOps(f)))
CxText(t, f) == Returned(RunOps(CxE(f), TextOps(t)))

\* the contexts the call is made on: (text * e) where the arena had room
\* for both, and one with no pair at all
InitCx ==
    \/ \E t \in Texts, f \in Fills :
          /\ CxText(t, f).ecode = "OK"
          /\ g = [text |-> t, fill |-> f, e |-> ValReg(CxE(f)), pair |-> TRUE]
          /\ cx = CxText(t, f)
    \/ /\ g = [text |-> << >>, fill |-> 0, e |-> ValReg(cx_create), pair |-> FALSE]
       /\ cx = cx_create

InitParse ==
    /\ InitCx
    /\ p = ParseState0
    /\ rbuf = << >>
    /\ pcp = "idle"
    /\ res = Op("text_to_block", "idle")

\* the step that ends in position k
Goto(k) ==
    /\ cx' = Returned(k.c)
    /\ p' = k.p
    /\ rbuf' = k.rbuf
    /\ pcp' = k.pcp
    /\ res' = Op("text_to_block", k.st)
    /\ UNCHANGED g

\* the call, up to the loop
Begin ==
    /\ pcp = "idle"
    /\ Goto(TtbBegin(cx, p))

\* a round that reads some bytes
ReadChunk ==
    /\ pcp = "loop"
    /\ Aborted(TtbRead(cx)) \/ TtbRead(cx).buf # << >>
    /\ Goto(Pos(TtbRead(cx), p, "running", TtbRead(cx).buf, "step"))

\* the round that reads none: wikrt_fini_parse and the return
Finish ==
    /\ pcp = "loop"
    /\ ~Aborted(TtbRead(cx))
    /\ TtbRead(cx).buf = << >>
    /\ Goto(TtbFini(wikrt_fini_parse(TtbRead(cx), p)))

\* one round of the loop of wikrt_step_parse
StepChar ==
    /\ pcp = "step"
    /\ Goto(TtbStep(wikrt_step_parse_char(cx, p, utf8_step_unsafe(rbuf)),
                    utf8_step_rest(rbuf)))

NextParse ==
    \/ Begin
    \/ ReadChunk
    \/ Finish
    \/ StepChar

ParseSpec == InitParse /\ [][NextParse]_vars

----------------------------------------------------------------------------
(* Properties of ParseSpec.                                                *)

\* the call has ended on a context that held (text * e)
ParseDone == pcp = "done" /\ g.pair

\* the list of code points t as a value
RECURSIVE TextTree(_)
TextTree(t) ==
    IF t = << >> THEN << "inr", << "unit" >> >>
    ELSE << "inl", << "pair", << "int", Head(t) >>, TextTree(Tail(t)) >> >>

\* before the call the value register holds (text * e)
StartsWithText ==
    (pcp = "idle" /\ g.pair) => ValReg(cx) = << "pair", TextTree(g.text), g.e >>

\* The grammar as a machine over code points: the state after the text s
\* from state q.  q.type is "OP", "TOK", "TXT", "TXTLF" or "ERR"; q.n is
\* the size of the token so far, q.txt the content of the literal so far.
AbsStart == [type |-> "OP", depth |-> 0, n |-> 0, txt |-> << >>]
AbsErr(q) == [q EXCEPT !.type = "ERR"]
AbsStep(q, cp) ==
    CASE q.type = "OP" ->
           IF cp = 91 THEN [q EXCEPT !.depth = @ + 1]
           ELSE IF cp = 93 THEN IF q.depth < 1 THEN AbsErr(q) ELSE [q EXCEPT !.depth = @ - 1]
           ELSE IF cp = 123 THEN [q EXCEPT !.type = "TOK", !.n = 0]
           ELSE IF cp = 34 THEN [q EXCEPT !.type = "TXT", !.txt = << >>]
           ELSE IF cp < 128 /\ wikrt_abc2op_ascii_table(cp) # OP_INVAL THEN q
           ELSE AbsErr(q)
      [] q.type = "TOK" ->
           IF cp = 125 THEN IF q.n = 0 THEN AbsErr(q) ELSE [q EXCEPT !.type = "OP"]
           ELSE IF ~wikrt_token_char(cp) THEN AbsErr(q)
           ELSE IF q.n + Len(utf8_writecp_unsafe(cp)) >= WIKRT_TOK_BUFFSZ THEN AbsErr(q)
           ELSE [q EXCEPT !.n = @ + Len(utf8_writecp_unsafe(cp))]
      [] q.type = "TXT" ->
           IF cp = 10 THEN [q EXCEPT !.type = "TXTLF"]
           ELSE IF ~wikrt_text_char(cp) THEN AbsErr(q)
           ELSE [q EXCEPT !.txt = @ \o utf8_writecp_unsafe(cp)]
      [] q.type = "TXTLF" ->
           IF cp = 32 THEN [q EXCEPT !.type = "TXT", !.txt = Append(@, 10)]
           ELSE IF cp = 126 THEN [q EXCEPT !.type = "OP"]
           ELSE AbsErr(q)
      [] OTHER -> q

RECURSIVE AbsRun(_, _)
AbsRun(s, q) == IF s = << >> THEN q ELSE AbsRun(Tail(s), AbsStep(q, Head(s)))

\* what the grammar says of the whole text t
GrammarResult(t) ==
    IF AbsRun(t, AbsStart).type = "OP" /\ AbsRun(t, AbsStart).depth = 0
    THEN "OK" ELSE "TYPE_ERROR"

\* a valid text value: every code point is a text character
ValidText(t) == \A i \in 1..Len(t) : wikrt_text_char(t[i])

\* C1: on a context holding (text * e) with text a valid text value,
\* wikrt_text_to_block returns OK exactly when the text is a program of the
\* grammar (at end of input: state OP, depth 0, empty stack, no text left),
\* and a type error for every other text, unless the arena is full.
C1_AcceptsGrammar ==
    (ParseDone /\ ValidText(g.text) /\ res.arg # "CXFULL")
        => res.arg = GrammarResult(g.text)

\* C2: whenever the call on (text * e) fails, at whatever point, the value
\* register afterwards is exactly e.
C2_FailureLeavesE ==
    (ParseDone /\ res.arg # "OK") => (~Aborted(cx) /\ ValReg(cx) = g.e)

\* the value a list of trees denotes
RECURSIVE ListTree(_)
ListTree(ts) ==
    IF ts = << >> THEN << "inr", << "unit" >> >>
    ELSE << "inl", << "pair", Head(ts), ListTree(Tail(ts)) >> >>
BlockOf(ts) == << "obj", WIKRT_OTAG_BLOCK, ListTree(ts) >>
OpvalOf(t) == << "obj", WIKRT_OTAG_OPVAL, t >>
OpOf(cp) == << "int", wikrt_abc2op_ascii_table(cp) >>

\* every character of t has an entry in the op table
AllPrims(t) == \A i \in 1..Len(t) : t[i] < 128 /\ wikrt_abc2op_ascii_table(t[i]) # OP_INVAL

\* C6: for a text made only of characters with an op-table entry the call
\* ends with OK (or the arena is full), and then the value register holds
\* (block * e) where the op list of the block has one op per character, op
\* k the table entry of character k, in the order of the text.
C6_FlatOps ==
    (ParseDone /\ AllPrims(g.text)) =>
        /\ res.arg \in { "OK", "CXFULL" }
        /\ res.arg = "OK" =>
             ValReg(cx) = << "pair", BlockOf([i \in 1..Len(g.text) |-> OpOf(g.text[i])]), g.e >>

\* a text of three or more ops, the first two different, has been parsed
C6_Witness ==
    /\ ParseDone /\ AllPrims(g.text) /\ res.arg = "OK"
    /\ Len(g.text) >= 3 /\ g.text[1] # g.text[2]
    /\ ValReg(cx) = << "pair", BlockOf([i \in 1..Len(g.text) |-> OpOf(g.text[i])]), g.e >>

\* the ops of a program of ops and brackets, in text order: cur is the list
\* of the block being read, stack the lists of the blocks around it
RECURSIVE AbsOps(_, _, _)
AbsOps(s, cur, stack) ==
    IF s = << >> THEN cur
    ELSE IF Head(s) = 91 THEN AbsOps(Tail(s), << >>, Append(stack, cur))
    ELSE IF Head(s) = 93
         THEN AbsOps(Tail(s), Append(stack[Len(stack)], OpvalOf(BlockOf(cur))),
                     SubSeq(stack, 1, Len(stack) - 1))
    ELSE AbsOps(Tail(s), Append(cur, OpOf(Head(s))), stack)

\* t is '[' s ']' with s a bracket-balanced program of ops and brackets
IsBlockText(t) ==
    /\ Len(t) >= 2 /\ t[1] = 91 /\ t[Len(t)] = 93
    /\ \A i \in 1..Len(t) : t[i] \in { 91, 93 } \/ AllPrims(<< t[i] >>)
    /\ GrammarResult(t) = "OK"
    /\ \A k \in 1..(Len(t) - 1) : AbsRun(SubSeq(t, 1, k), AbsStart).depth >= 1

\* C7: parsing '[' s ']' with s bracket-balanced adds exactly one op, an
\* OPVAL over a BLOCK whose ops are those of s in text order, the list and
\* the stack around it are as before, and no assertion fails: the call on
\* such a text ends with OK and the block of that single op.
C7_BlockOp ==
    (ParseDone /\ IsBlockText(g.text) /\ res.arg # "CXFULL") =>
        /\ res.arg = "OK"
        /\ ValReg(cx) = << "pair", BlockOf(AbsOps(g.text, << >>, << >>)), g.e >>

\* t starts a text literal and no proper prefix of t ends it or is in error
IsLiteral(t) ==
    /\ Len(t) >= 1 /\ t[1] = 34
    /\ \A k \in 1..(Len(t) - 1) : AbsRun(SubSeq(t, 1, k), AbsStart).type \in { "TXT", "TXTLF" }

\* the bytes of the chunks of a text, in the order of the chain
RECURSIVE TextBytes(_)
TextBytes(t) == IF t[1] = "text" THEN t[3] \o TextBytes(t[4]) ELSE << >>

\* v is (block * e) where the block has one op, an OPVAL over a text with
\* the content bytes
IsTextBlock(v, bytes, e) ==
    /\ v[1] = "pair" /\ v[3] = e
    /\ v[2][1] = "obj" /\ v[2][2] = WIKRT_OTAG_BLOCK
    /\ v[2][3][1] = "inl" /\ v[2][3][2][3] = << "inr", << "unit" >> >>
    /\ v[2][3][2][2][1] = "obj" /\ LOBYTE(v[2][3][2][2][2]) = WIKRT_OTAG_OPVAL
    /\ v[2][3][2][2][3][1] \in { "text", "inr" }
    /\ TextBytes(v[2][3][2][2][3]) = bytes

\* C8: parsing '"' body LF '~' adds exactly one op, an OPVAL over a text
\* whose content is body with each LF SP replaced by LF, and leaves state
\* OP; a literal that is not closed, or has an LF followed by something
\* other than SP or '~', yields a type error.
C8_TextOp ==
    (ParseDone /\ ValidText(g.text) /\ IsLiteral(g.text) /\ res.arg # "CXFULL") =>
        /\ res.arg = GrammarResult(g.text)
        /\ res.arg = "OK" => IsTextBlock(ValReg(cx), AbsRun(g.text, AbsStart).txt, g.e)

\* what does hold of C2: a failure the call returns leaves e
ReturnedFailureLeavesE ==
    (ParseDone /\ res.arg \in { "TYPE_ERROR", "CXFULL" }) => ValReg(cx) = g.e
\* and of C1: a call that returns agrees with the grammar
ReturnedAgreesWithGrammar ==
    (ParseDone /\ ValidText(g.text) /\ res.arg \in { "OK", "TYPE_ERROR" })
        => res.arg = GrammarResult(g.text)


----------------------------------------------------------------------------
(* Specification ComposeSpec: one call of wikrt_compose on a context that  *)
(* holds ([a->b] * ([b->c] * e)).  The two blocks are built the way the    *)
(* runtime builds its own blocks (wikrt_block_quote_inline_attrib): ops    *)
(* consed onto an empty list, wrapped as a block, then attributed.         *)

RECURSIVE OpsOf(_, _)
\* the calls that cons the ops base+1 .. base+n onto the list on top
OpsOf(n, base) ==
    IF n = 0 THEN << >>
    ELSE << Op("intro_op", base + n), Op("cons", 0) >> \o OpsOf(n - 1, base)

\* the calls that push a block of n ops with the attributes attrs
BlockOps(n, base, attrs) ==
    << Op("intro_empty_list", 0) >> \o OpsOf(n, base)
        \o << Op("wrap_otag", WIKRT_OTAG_BLOCK) >> \o attrs

FRK == Op("block_fork", 0)
\* op counts of the top block: around smallfn, and of the second block
TopCounts == { 0, 1, 2, smallfn, smallfn + 1 }
SndCounts == { 0, 1, 2 }
TopAttrs == { << >>, << AFF >>, << REL >>, << AFF, REL >>, << LZY >>, << AFF, LZY >>,
              << REL, FRK >> }
SndAttrs == { << >>, << AFF >>, << REL >>, << REL, LZY >>, << AFF, FRK >> }
\* e: the empty stack, or an integer on it
Unders == { << >>, << I1 >> }
\* the ops of the second block are numbered from here
SndBase == smallfn + 5

CxBlocks(n1, a1, n2, a2, u) ==
    Returned(RunOps(cx_create, u \o BlockOps(n2, SndBase, a2) \o BlockOps(n1, 0, a1)))

InitCompose ==
    /\ \E n1 \in TopCounts, a1 \in TopAttrs, n2 \in SndCounts, a2 \in SndAttrs, u \in Unders :
          /\ CxBlocks(n1, a1, n2, a2, u).ecode = "OK"
          /\ cx = CxBlocks(n1, a1, n2, a2, u)
    /\ g = [pre |-> ValReg(cx), c0 |-> cx]
    /\ p = << >>
    /\ rbuf = << >>
    /\ pcp = "idle"
    /\ res = Op("start", 0)

\* the call of wikrt_compose
ComposeBlocks ==
    /\ pcp = "idle"
    /\ cx' = Returned(Do(cx, "compose"))
    /\ pcp' = "done"
    /\ res' = Op("compose", 0)
    /\ UNCHANGED <<p, rbuf, g>>

NextCompose ==
    \/ ComposeBlocks

ComposeSpec == InitCompose /\ [][NextCompose]_vars

----------------------------------------------------------------------------
(* Properties of ComposeSpec.                                              *)

\* the two operands and the rest of the stack before the call, as trees
TopBlock == g.pre[2]
SndBlock == g.pre[3][2]
RestE    == g.pre[3][3]

RECURSIVE TreeList(_)
\* the elements of a list tree
TreeList(t) == IF t[1] = "inl" THEN << t[2][2] >> \o TreeList(t[2][3]) ELSE << >>
\* t is a list tree ended by unit-in-right
RECURSIVE IsListTree(_)
IsListTree(t) ==
    IF t[1] = "inl" THEN t[2][1] = "pair" /\ IsListTree(t[2][3])
    ELSE t = << "inr", << "unit" >> >>

\* the header of a block tree has the attribute
HasAttr(t, attrib) == BitAnd(t[2], attrib) # 0
Decorated(t) == HasAttr(t, WIKRT_BLOCK_LAZY) \/ HasAttr(t, WIKRT_BLOCK_FORK)

\* the call has returned without an error
ComposeOk == pcp = "done" /\ ~Aborted(cx) /\ cx.ecode = "OK"

\* C11: after a successful compose the result block has AFFINE iff one of
\* the operands had AFFINE and RELEVANT iff one of them had RELEVANT,
\* whatever the operands (decorated with LAZY or FORK, or large).
C11_FlagUnion ==
    ComposeOk =>
        /\ ValReg(cx)[1] = "pair"
        /\ ValReg(cx)[2][1] = "obj"
        /\ LOBYTE(ValReg(cx)[2][2]) = WIKRT_OTAG_BLOCK
        /\ HasAttr(ValReg(cx)[2], WIKRT_BLOCK_AFFINE)
              <=> (HasAttr(TopBlock, WIKRT_BLOCK_AFFINE) \/ HasAttr(SndBlock, WIKRT_BLOCK_AFFINE))
        /\ HasAttr(ValReg(cx)[2], WIKRT_BLOCK_RELEVANT)
              <=> (HasAttr(TopBlock, WIKRT_BLOCK_RELEVANT) \/ HasAttr(SndBlock, WIKRT_BLOCK_RELEVANT))

\* what does hold of C11: the union is taken where neither operand is
\* rewritten as [[block] inline]
UndecoratedFlagUnion ==
    (ComposeOk /\ ~Decorated(TopBlock) /\ ~Decorated(SndBlock)
       /\ Len(TreeList(TopBlock[3])) <= smallfn)
      => ValReg(cx)[2][2] = BitOr(TopBlock[2], SndBlock[2])

\* C12: for two blocks without LAZY or FORK, the top one of at most 15
\* ops, compose returns without error or abort, removes one stack element
\* and leaves one block whose op list is the ops of the top block followed
\* by the ops of the second, ended by unit-in-right, above the same e.
C12_Concat ==
    (pcp = "done" /\ ~Decorated(TopBlock) /\ ~Decorated(SndBlock)
       /\ Len(TreeList(TopBlock[3])) <= smallfn)
      => /\ ComposeOk
         /\ ValReg(cx)[1] = "pair"
         /\ ValReg(cx)[3] = RestE
         /\ ValReg(cx)[2][1] = "obj"
         /\ LOBYTE(ValReg(cx)[2][2]) = WIKRT_OTAG_BLOCK
         /\ IsListTree(ValReg(cx)[2][3])
         /\ TreeList(ValReg(cx)[2][3]) = TreeList(TopBlock[3]) \o TreeList(SndBlock[3])

\* C12 happens: a top block of 15 ops and a second block of 2 ops were
\* composed into one block of 17 ops
C12_Witness ==
    /\ ComposeOk
    /\ ~Decorated(TopBlock) /\ ~Decorated(SndBlock)
    /\ Len(TreeList(TopBlock[3])) = smallfn
    /\ Len(TreeList(SndBlock[3])) = 2
    /\ TreeList(ValReg(cx)[2][3]) = TreeList(TopBlock[3]) \o TreeList(SndBlock[3])
    /\ Len(TreeList(ValReg(cx)[2][3])) = smallfn + 2

\* the context wikrt_compose scans: after the two operands were prepared
ComposePrep ==
    Do(Do(Do(Do(g.c0, "wswap"), "hide_block_decorators"), "wswap"),
       "hide_block_decorators")

\* the links the first scan of wikrt_compose follows
ProbeHops == ScanHops(ComposePrep, PeekAddr(ComposePrep) + WIKRT_VALSIZE, smallfn)

\* the op a block tree t is quoted as, and the op inline
QuotedOp(t) == << "obj", WIKRT_OTAG_OPVAL + WIKRT_OPVAL_LAZYKF, t >>
InlineOp == << "int", ACCEL_INLINE >>

\* the op list of the result
ResultOps == TreeList(ValReg(cx)[2][3])

\* C24, as stated: whatever the operands, a top block of at most 15 ops is
\* spliced as it is, a larger one as [[block] inline], and the probe
\* follows at most 15 links.
C24_AsStated ==
    pcp = "done" =>
        /\ ComposeOk
        /\ Len(TreeList(TopBlock[3])) <= smallfn =>
              ResultOps = TreeList(TopBlock[3]) \o TreeList(SndBlock[3])
        /\ Len(TreeList(TopBlock[3])) > smallfn =>
              ResultOps = << QuotedOp(TopBlock), InlineOp >> \o TreeList(SndBlock[3])
        /\ ProbeHops <= smallfn

\* C24, amended: for operands without LAZY or FORK, a top block of at most
\* 15 ops is spliced as it is; a larger one is rewritten as the two ops
\* [block] inline, which needs memory, and spliced so; each is followed by
\* the ops of the second block.  The probe follows as many links as the
\* top block has ops, and never more than 16.
C24_SmallSplice ==
    /\ pcp = "done" => ProbeHops <= smallfn + 1
    /\ (pcp = "done" /\ ~Decorated(TopBlock) /\ ~Decorated(SndBlock)) =>
        /\ ~Aborted(cx)
        /\ cx.ecode \in { "OK", "CXFULL" }
        /\ Len(TreeList(TopBlock[3])) <= smallfn =>
              /\ ComposeOk
              /\ ResultOps = TreeList(TopBlock[3]) \o TreeList(SndBlock[3])
              /\ ProbeHops = Len(TreeList(TopBlock[3]))
        /\ Len(TreeList(TopBlock[3])) > smallfn =>
              /\ ProbeHops = smallfn + 1
              /\ ComposeOk =>
                    ResultOps = << QuotedOp(TopBlock), InlineOp >> \o TreeList(SndBlock[3])
        /\ ComposeOk =>
              /\ IsListTree(ValReg(cx)[2][3])
              /\ ValReg(cx)[3] = RestE

\* C24 happens: a top block of 16 ops with AFFINE was composed with a block
\* into a block of the two ops [block] inline and the ops of the second
\* block, after a probe of 16 links
C24_Witness ==
    /\ ComposeOk
    /\ ~Decorated(TopBlock) /\ ~Decorated(SndBlock)
    /\ HasAttr(TopBlock, WIKRT_BLOCK_AFFINE)
    /\ Len(TreeList(TopBlock[3])) = smallfn + 1
    /\ Len(ResultOps) = 2 + Len(TreeList(SndBlock[3]))
    /\ ResultOps[1] = QuotedOp(TopBlock)
    /\ ResultOps[2] = InlineOp
    /\ ProbeHops = smallfn + 1
----------------------------------------------------------------------------
(* Specification ProdSpec: a client applies the product rewrites assocl,   *)
(* assocr, wswap and zswap one after another to a stack of a few values.   *)
(* g keeps the contexts before the last call (pre) and before the call     *)
(* before it (pre2), and the name of that earlier call (prev).             *)

MaxProdSteps == 2

\* the calls that push one value
ProdItems == { << IU >>, << I1 >>, << I2, INL >>, << IDB, AFF >> }
\* stacks of one to three values, the top two paired or not
ProdStarts ==
    { a : a \in ProdItems }
      \cup { a \o b \o t : a \in ProdItems, b \in ProdItems, t \in { << >>, << AL >> } }
      \cup { a \o b \o c \o t : a \in ProdItems, b \in ProdItems, c \in ProdItems,
                                t \in { << >>, << AL >> } }

InitProd ==
    /\ cx \in { Returned(RunOps(cx_create, s)) : s \in ProdStarts }
    /\ cx.ecode = "OK"
    /\ p = << >>
    /\ rbuf = << >>
    /\ pcp = "idle"
    /\ res = Op("start", 0)
    /\ g = [n |-> 0, pre |-> cx, pre2 |-> cx, prev |-> "start"]

\* one call of a product rewrite
ProdCall(name) ==
    /\ g.n < MaxProdSteps
    /\ ~Aborted(cx)
    /\ cx' = Returned(Do(cx, name))
    /\ res' = Op(name, 0)
    /\ g' = [n |-> g.n + 1, pre |-> cx, pre2 |-> g.pre, prev |-> res.name]
    /\ UNCHANGED <<p, rbuf, pcp>>

ProdAssocl == /\ ProdCall("assocl")
ProdAssocr == /\ ProdCall("assocr")
ProdWswap  == /\ ProdCall("wswap")
ProdZswap  == /\ ProdCall("zswap")

NextProd ==
    \/ ProdAssocl \/ ProdAssocr \/ ProdWswap \/ ProdZswap

ProdSpec == InitProd /\ [][NextProd]_vars

----------------------------------------------------------------------------
(* Properties of ProdSpec.                                                 *)

\* a rewrite and the rewrite stated as its inverse
ProdInverses ==
    { << "assocr", "assocl" >>, << "assocl", "assocr" >>,
      << "wswap", "wswap" >>, << "zswap", "zswap" >> }

\* the last two calls were first then second, and first found the shape
\* it requires
ProdPair(first, second) ==
    /\ g.n >= 2
    /\ g.prev = first
    /\ res.name = second
    /\ g.pre2.ecode = "OK"
    /\ g.pre.ecode = "OK"

\* C13: a product rewrite that found its shape, followed by its inverse,
\* leaves no error, the value register holding the value it held before
\* the two calls, and the allocator where it was.
C13_ProductInverses ==
    \A pr \in ProdInverses :
        ProdPair(pr[1], pr[2]) =>
            /\ ~Aborted(cx)
            /\ cx.ecode = "OK"
            /\ ValReg(cx) = ValReg(g.pre2)
            /\ cx.val = g.pre2.val
            /\ cx.alloc = g.pre2.alloc

\* C13 happens: assocr changed the value register and assocl restored it
C13_Witness ==
    /\ ProdPair("assocr", "assocl")
    /\ ValReg(g.pre) # ValReg(g.pre2)
    /\ ValReg(cx) = ValReg(g.pre2)
----------------------------------------------------------------------------
(* Specification SumSpec: a client wraps the value on top of the stack in  *)
(* sums and unwraps them again.  The run starts with a value under a       *)
(* number of wraps that brings the DEEPSUM path word near its capacity,    *)
(* continues with at most MaxWraps further wraps, and unwraps at any time. *)
(* g.tags are the tags the value on top is wrapped in, the last wrapped    *)
(* first; g.v and g.e are the value and the rest of the stack, as trees;   *)
(* g.most is the largest number of DEEPSUM wrappers the value has had.     *)

MaxWraps == 3
\* two bits a step in the 24 path bits of a 32-bit header
PathSteps == 12

RECURSIVE WrapOps(_, _)
\* n wraps with the tags of the pattern pat, repeated
WrapOps(n, pat) ==
    IF n = 0 THEN << >>
    ELSE WrapOps(n - 1, pat) \o << Op("wrap_sum", pat[((n - 1) % Len(pat)) + 1]) >>

\* the tags of a sequence of wraps, the last first
RECURSIVE TagsOf(_)
TagsOf(ops) == IF ops = << >> THEN << >> ELSE TagsOf(Tail(ops)) \o << Head(ops).arg >>

\* the calls that push the value to wrap
SumItems == { << IU >>, << I1 >>, << I1, I2, AL >>, << IDB >> }
SumPatterns == { << "INL" >>, << "INR" >>, << "INL", "INR" >>, << "INR", "INR", "INL" >> }
SumPrefixes == { 0, PathSteps - 2, PathSteps - 1, PathSteps }

\* the number of DEEPSUM wrappers around a tree
RECURSIVE Wrappers(_)
Wrappers(t) ==
    IF t[1] = "obj" /\ LOBYTE(t[2]) = WIKRT_OTAG_DEEPSUM THEN 1 + Wrappers(t[3]) ELSE 0

InitSum ==
    /\ \E it \in SumItems, n \in SumPrefixes, pat \in SumPatterns :
          /\ cx = Returned(RunOps(cx_create, it \o WrapOps(n, pat)))
          /\ g = [wraps |-> 0, tags |-> TagsOf(WrapOps(n, pat)), expect |-> "none",
                  v |-> TopVal(RunOps(cx_create, it)), e |-> RestVal(RunOps(cx_create, it)),
                  most |-> Wrappers(TopVal(cx))]
    /\ cx.ecode = "OK"
    /\ p = << >>
    /\ rbuf = << >>
    /\ pcp = "idle"
    /\ res = Op("start", 0)

\* wikrt_wrap_sum(cx, lr)
SumWrap ==
    /\ g.wraps < MaxWraps
    /\ ~Aborted(cx)
    /\ \E lr \in SumTags :
          /\ cx' = Returned(DoA(cx, "wrap_sum", lr))
          /\ res' = Op("wrap_sum", lr)
          /\ g' = [g EXCEPT !.wraps = @ + 1, !.tags = << lr >> \o @, !.expect = "none",
                            !.most = IF Wrappers(TopVal(cx')) > @ THEN Wrappers(TopVal(cx'))
                                     ELSE @]
    /\ UNCHANGED <<p, rbuf, pcp>>

\* wikrt_unwrap_sum(cx, &lr): res.arg is the tag reported through lr, which
\* held u before the call
SumUnwrap ==
    /\ g.tags # << >>
    /\ ~Aborted(cx)
    /\ \E u \in SumTags :
          /\ cx' = Returned(Do([cx EXCEPT !.sum = u], "unwrap_sum"))
          /\ res' = Op("unwrap_sum", Do([cx EXCEPT !.sum = u], "unwrap_sum").sum)
    /\ g' = [g EXCEPT !.tags = Tail(@), !.expect = Head(g.tags)]
    /\ UNCHANGED <<p, rbuf, pcp>>

NextSum ==
    \/ SumWrap \/ SumUnwrap

SumSpec == InitSum /\ [][NextSum]_vars

----------------------------------------------------------------------------
(* Properties of SumSpec.                                                  *)

RECURSIVE PathTree(_, _)
\* the sums a DEEPSUM path stands for, around the tree t
PathTree(path, t) ==
    IF path = 0 THEN t
    ELSE << (IF path % 4 = WIKRT_DEEPSUML THEN "inl" ELSE "inr"), PathTree(path \div 4, t) >>

RECURSIVE SumDenote(_)
\* a value tree with its DEEPSUM objects read as the sums they stand for
SumDenote(t) ==
    IF t[1] = "obj" /\ LOBYTE(t[2]) = WIKRT_OTAG_DEEPSUM
    THEN PathTree(DeepsumPath(t[2]), SumDenote(t[3]))
    ELSE IF t[1] \in { "inl", "inr" } THEN << t[1], SumDenote(t[2]) >>
    ELSE t

RECURSIVE TagTree(_, _)
\* the tree t wrapped in the tags, the first of them outermost
TagTree(tags, t) ==
    IF tags = << >> THEN t
    ELSE << (IF Head(tags) = "INL" THEN "inl" ELSE "inr"), TagTree(Tail(tags), t) >>

\* C14: every unwrap_sum reports the tag wrapped last among those not yet
\* unwrapped and returns no error; the top of the stack always denotes the
\* value under the tags that remain, and is the value itself, with no
\* wrapper left, once all tags have been unwrapped; the rest of the stack
\* is untouched.
C14_UnwrapInverse ==
    /\ ~Aborted(cx)
    /\ cx.ecode = "OK"
    /\ res.name = "unwrap_sum" => res.arg = g.expect
    /\ SumDenote(TopVal(cx)) = TagTree(g.tags, g.v)
    /\ g.tags = << >> => TopVal(cx) = g.v
    /\ RestVal(cx) = g.e

\* C14 happens: more tags than one path word holds were wrapped, so that a
\* second wrapper was allocated, and all of them have been unwrapped
C14_Witness ==
    /\ res.name = "unwrap_sum"
    /\ g.tags = << >>
    /\ g.most = 2
    /\ TopVal(cx) = g.v
----------------------------------------------------------------------------
(* Specification ExpSpec: a client takes apart a list held in BINARY,      *)
(* ARRAY and UTF8 chunks: unwrap_sum, wrap_sum with the tag reported, and  *)
(* assocr and wswap to step to the tail.  g keeps the contexts before the  *)
(* last call (pre) and the one before it (pre2), the name of that earlier  *)
(* call (prev) and the tag the last unwrap_sum reported (lr).              *)

MaxExpSteps == 4

\* the bytes of binaries and texts: a, b, e-acute, the euro sign
ExpBytes == { << >>, << 97 >>, << 97, 98 >>, << 200, 98, 99 >> }
ExpTexts == { << >>, << 97 >>, << 97, 98 >>, << 195, 169 >>, << 97, 195, 169 >>,
              << 226, 130, 172 >>, << 195, 169, 98 >> }
\* the slots of arrays: integers and units
ExpSlots == { << wikrt_i2v(1) >>, << wikrt_i2v(1), wikrt_i2v(2) >>,
              << WIKRT_UNIT, wikrt_i2v(0 - 1), wikrt_i2v(3) >> }

\* the calls that push a list
ExpLists ==
    { << Op("intro_binary", b) >> : b \in ExpBytes }
      \cup { << Op("intro_text", t) >> : t \in ExpTexts }
      \cup { << Op("intro_binary", b), Op("cons_binary_chunk", b2) >> :
                b \in ExpBytes, b2 \in ExpBytes \ { << >> } }
      \cup { << Op("intro_binary", b), Op("cons_array_chunk", ws) >> :
                b \in { << >>, << 97 >> }, ws \in ExpSlots }
      \cup { << Op("intro_binary", << >>), Op("cons_array_chunk", ws),
                Op("cons_array_chunk", ws2) >> : ws \in ExpSlots, ws2 \in ExpSlots }
      \cup { << Op("intro_binary", b), Op("cons_binary_chunk", b2),
                Op("wrap_otag", WIKRT_OTAG_UTF8) >> : b \in { << 98 >> }, b2 \in { << 97 >> } }

\* the units under the list: none, and loads that leave the arena short
ExpFills == { 0, 1, SizeCells - 8, SizeCells - 6 }

InitExp ==
    /\ \E l \in ExpLists, f \in ExpFills :
          cx = Returned(RunOps(cx_create, FillOps(f) \o l))
    /\ cx.ecode = "OK"
    /\ ~Aborted(cx)
    /\ p = << >>
    /\ rbuf = << >>
    /\ pcp = "idle"
    /\ res = Op("start", 0)
    /\ g = [n |-> 0, pre |-> cx, pre2 |-> cx, prev |-> "start", lr |-> "none"]

\* one call: c1 is the context at its return, before the locals are gone
ExpCall(op, c1, lr) ==
    /\ g.n < MaxExpSteps
    /\ ~Aborted(cx)
    /\ cx' = Returned(c1)
    /\ res' = op
    /\ g' = [n |-> g.n + 1, pre |-> cx, pre2 |-> g.pre, prev |-> res.name, lr |-> lr]
    /\ UNCHANGED <<p, rbuf, pcp>>

\* wikrt_unwrap_sum(cx, &lr), lr holding u before the call
ExpUnwrap ==
    /\ \E u \in SumTags :
          ExpCall(Op("unwrap_sum", 0), Do([cx EXCEPT !.sum = u, !.ulr = u], "unwrap_sum"),
                  Do([cx EXCEPT !.sum = u, !.ulr = u], "unwrap_sum").sum)

\* wikrt_wrap_sum(cx, lr) with the tag the last unwrap_sum reported
ExpWrap ==
    /\ g.lr \in SumTags
    /\ ExpCall(Op("wrap_sum", g.lr), DoA(cx, "wrap_sum", g.lr), "none")

ExpAssocr == /\ ExpCall(Op("assocr", 0), Do(cx, "assocr"), "none")
ExpWswap  == /\ ExpCall(Op("wswap", 0), Do(cx, "wswap"), "none")

NextExp ==
    \/ ExpUnwrap \/ ExpWrap \/ ExpAssocr \/ ExpWswap

ExpSpec == InitExp /\ [][NextExp]_vars

----------------------------------------------------------------------------
(* Properties of ExpSpec.                                                  *)

RECURSIVE Utf8Decode(_)
\* the code points of a sequence of bytes holding complete sequences
Utf8Decode(bs) ==
    IF bs = << >> THEN << >>
    ELSE IF utf8_readcp(bs) = 0 THEN << "bad" >>
    ELSE << utf8_readcp_unsafe(SubSeq(bs, 1, utf8_readcp(bs))) >>
           \o Utf8Decode(SubSeq(bs, utf8_readcp(bs) + 1, Len(bs)))

\* the integers of a sequence of integer trees
IntsOf(ts) == [i \in 1..Len(ts) |-> IF ts[i][1] = "int" THEN ts[i][2] ELSE "bad"]

RECURSIVE ListDenote(_)
\* the sequence of elements a list tree denotes: cells, chunks of bytes
\* and of slots, and texts, which denote the code points of their bytes
ListDenote(t) ==
    CASE t[1] = "inl" /\ t[2][1] = "pair" -> << t[2][2] >> \o ListDenote(t[2][3])
      [] t = << "inr", << "unit" >> >> -> << >>
      [] t[1] = "binary" -> [i \in 1..Len(t[2]) |-> << "int", t[2][i] >>] \o ListDenote(t[3])
      [] t[1] = "array" -> t[2] \o ListDenote(t[3])
      [] t[1] = "obj" /\ LOBYTE(t[2]) = WIKRT_OTAG_UTF8 ->
            [i \in 1..Len(Utf8Decode(IntsOf(ListDenote(t[3])))) |->
                << "int", Utf8Decode(IntsOf(ListDenote(t[3])))[i] >>]
      [] OTHER -> << << "bad", t >> >>

\* the list is held in a chunk, or is the empty list that intro_binary
\* makes of no bytes
ChunkHead(t) ==
    \/ t[1] \in { "binary", "array" }
    \/ t[1] = "obj" /\ LOBYTE(t[2]) = WIKRT_OTAG_UTF8
    \/ t = << "inr", << "unit" >> >>

\* the last call was unwrap_sum on a list held in a chunk
ExpUnwrapped ==
    /\ res.name = "unwrap_sum"
    /\ g.pre.ecode = "OK"
    /\ wikrt_p(g.pre.val)
    /\ ChunkHead(TopVal(g.pre))

\* the last two calls were unwrap_sum on a list held in a chunk and
\* wrap_sum with the tag reported
ExpRoundTrip ==
    /\ g.n >= 2
    /\ res.name = "wrap_sum"
    /\ g.prev = "unwrap_sum"
    /\ g.pre2.ecode = "OK"
    /\ wikrt_p(g.pre2.val)
    /\ ChunkHead(TopVal(g.pre2))

\* C15: unwrap_sum on a list held in a BINARY, ARRAY or UTF8 chunk, where
\* the context has the memory for the cell it takes, returns no error and
\* reports right with unit for the empty list and left with the pair of
\* the first element and a tail denoting the others; wrap_sum with the
\* tag reported then leaves a list denoting the same elements in the same
\* order above the same rest of the stack.
C15_ExpandRoundTrip ==
    /\ ExpUnwrapped =>
          /\ ~Aborted(cx)
          /\ cx.ecode \in { "OK", "CXFULL" }
          /\ cx.ecode = "OK" =>
                /\ RestVal(cx) = RestVal(g.pre)
                /\ IF ListDenote(TopVal(g.pre)) = << >>
                   THEN g.lr = "INR" /\ TopVal(cx) = << "unit" >>
                   ELSE /\ g.lr = "INL"
                        /\ TopVal(cx)[1] = "pair"
                        /\ TopVal(cx)[2] = Head(ListDenote(TopVal(g.pre)))
                        /\ ListDenote(TopVal(cx)[3]) = Tail(ListDenote(TopVal(g.pre)))
    /\ (ExpRoundTrip /\ g.pre.ecode = "OK") =>
          /\ ~Aborted(cx)
          /\ cx.ecode = "OK"
          /\ RestVal(cx) = RestVal(g.pre2)
          /\ ListDenote(TopVal(cx)) = ListDenote(TopVal(g.pre2))

\* C15 happens: the element expanded was the only one left in its chunk
\* and the chunk had a next chunk, which is now the tail
C15_Witness ==
    /\ ExpRoundTrip
    /\ cx.ecode = "OK"
    /\ TopVal(g.pre2)[1] \in { "binary", "array" }
    /\ Len(TopVal(g.pre2)[2]) = 1
    /\ TopVal(g.pre2)[3] # << "inr", << "unit" >> >>
    /\ TopVal(cx)[1] = "inl"
    /\ TopVal(cx)[2][3] = TopVal(g.pre2)[3]
    /\ ListDenote(TopVal(cx)) = ListDenote(TopVal(g.pre2))
----------------------------------------------------------------------------
(* Specification IntSpec: a client calls the integer operations on a stack *)
(* of two small integers, (b * (a * e)).  g.pre is the context before the  *)
(* last call.                                                              *)

MaxIntSteps == 2

\* small integers at the ends of the range, around zero and around 2^14
IntVals ==
    { 0, 1, 0 - 1, 2, 0 - 2, 3, 0 - 3, 11, 0 - 11, Half - 1, Half, 0 - Half, Half + 1,
      WIKRT_SMALLINT_MAX, WIKRT_SMALLINT_MAX - 1, WIKRT_SMALLINT_MIN, WIKRT_SMALLINT_MIN + 1,
      (WIKRT_SMALLINT_MAX + 1) \div 2, 0 - ((WIKRT_SMALLINT_MAX + 1) \div 2) }

InitInt ==
    /\ \E a \in IntVals, b \in IntVals :
          cx = Returned(RunOps(cx_create, << Op("intro_i32", a), Op("intro_i32", b) >>))
    /\ cx.ecode = "OK"
    /\ p = << >>
    /\ rbuf = << >>
    /\ pcp = "idle"
    /\ res = Op("start", 0)
    /\ g = [n |-> 0, pre |-> cx]

IntCall(name) ==
    /\ g.n < MaxIntSteps
    /\ ~Aborted(cx)
    /\ cx' = Returned(Do(cx, name))
    /\ res' = Op(name, 0)
    /\ g' = [n |-> g.n + 1, pre |-> cx]
    /\ UNCHANGED <<p, rbuf, pcp>>

IntDivCall == /\ IntCall("int_div")
IntAddCall == /\ IntCall("int_add")
IntMulCall == /\ IntCall("int_mul")
IntNegCall == /\ IntCall("int_neg")

NextInt ==
    \/ IntDivCall \/ IntAddCall \/ IntMulCall \/ IntNegCall

IntSpec == InitInt /\ [][NextInt]_vars

----------------------------------------------------------------------------
(* Properties of IntSpec.                                                  *)

\* the second value of the stack, and the stack below the second
SndVal(c) == ValOf(c, Fst(c, Snd(c, c.val)))
BelowVal(c) == ValOf(c, Snd(c, Snd(c, c.val)))

\* the last call was name, made without an error latched on two integers
IntCalled(name) ==
    /\ res.name = name
    /\ g.pre.ecode = "OK"
    /\ wikrt_cx_has_two_ints(g.pre)

\* the operands of the last call: b on top, a under it
OpB == TopVal(g.pre)[2]
OpA == SndVal(g.pre)[2]

Sign(n) == IF n < 0 THEN 0 - 1 ELSE IF n > 0 THEN 1 ELSE 0

\* C16: int_div on (b * (a * e)) with b # 0 returns no error and leaves
\* (r * (q * e)) with a = q*b + r, |r| < |b|, r = 0 or of the sign of b,
\* and q and r small integers; with b = 0 it latches EDIV0 and leaves the
\* value register as it was.
C16_FlooredDivision ==
    IntCalled("int_div") =>
        /\ ~Aborted(cx)
        /\ IF OpB = 0
           THEN cx.ecode = "EDIV0" /\ ValReg(cx) = ValReg(g.pre) /\ cx.val = g.pre.val
           ELSE /\ cx.ecode = "OK"
                /\ TopVal(cx)[1] = "int"
                /\ SndVal(cx)[1] = "int"
                /\ BelowVal(cx) = BelowVal(g.pre)
                /\ SmallRange(TopVal(cx)[2])
                /\ SmallRange(SndVal(cx)[2])
                /\ Abs(TopVal(cx)[2]) < Abs(OpB)
                /\ TopVal(cx)[2] = 0 \/ Sign(TopVal(cx)[2]) = Sign(OpB)
                /\ OpA = (SndVal(cx)[2] * OpB) + TopVal(cx)[2]

\* C16 happens: a negative dividend was divided by a positive divisor with
\* a remainder, so that the quotient was rounded down
C16_Witness ==
    /\ IntCalled("int_div")
    /\ OpA < 0 /\ OpB > 0
    /\ cx.ecode = "OK"
    /\ TopVal(cx)[2] > 0
    /\ SndVal(cx)[2] = CQuot(OpA, OpB) - 1

\* the exact sum or product is a small integer
ExactInRange(name) ==
    IF name = "int_add" THEN SmallRange(OpA + OpB)
    ELSE Mul64(OpA, OpB).hi = 0

\* C17: int_add and int_mul on two small integers replace them by the
\* exact sum or product where it is a small integer, and otherwise latch
\* IMPL and leave the value register as it was.
C17_NoWrapAround ==
    \A name \in { "int_add", "int_mul" } :
        IntCalled(name) =>
            /\ ~Aborted(cx)
            /\ IF ExactInRange(name)
               THEN /\ cx.ecode = "OK"
                    /\ TopVal(cx) = << "int", IF name = "int_add" THEN OpA + OpB ELSE OpA * OpB >>
                    /\ RestVal(cx) = BelowVal(g.pre)
               ELSE /\ cx.ecode = "IMPL"
                    /\ ValReg(cx) = ValReg(g.pre)
                    /\ cx.val = g.pre.val

\* C17 happens: 1 was added to the largest small integer and IMPL latched
C17_Witness ==
    /\ IntCalled("int_add")
    /\ { OpA, OpB } = { 1, WIKRT_SMALLINT_MAX }
    /\ cx.ecode = "IMPL"
    /\ ValReg(cx) = ValReg(g.pre)
----------------------------------------------------------------------------
(* Specification GcSpec: a client builds a value of one of the kinds the   *)
(* runtime has (pairs, sums, integers, blocks, quoted values, trash,       *)
(* binaries, texts, arrays), over an arena with or without room, and then  *)
(* collects, copies, unwraps, drops and swaps.  g.pre is the context       *)
(* before the last call and g.prev the name of the call before it.         *)

MaxGcSteps == 3

\* the calls that push the value on top
GcValues ==
    { << I1 >>,
      << I1, I2, AL >>,
      << I1, INL, INR, INL >>,
      << I1, I2, AL, INR, INR >>,
      << IDB, REL >>,
      << IDB, Op("block_fork", 0) >>,
      << I2, INL, QT >>,
      << IDB, QT, REL >>,
      << IDB, AFF, Op("trash", 0) >>,
      << I1 >> \o BlockOps(2, 0, << >>),
      << Op("intro_binary", << 97, 98, 99 >>) >>,
      << Op("intro_binary", << 200, 98, 99, 100, 101, 102, 103, 104, 105 >>) >>,
      << Op("intro_binary", << 97 >>), Op("cons_binary_chunk", << 98, 99 >>) >>,
      << Op("intro_text", << 97, 195, 169 >>) >>,
      << Op("intro_text", << >>) >>,
      << I1, I2, AL, Op("wrap_seal", << 58, 97 >>) >>,
      << I1, Op("wrap_seal", << 97, 98 >>) >>,
      << Op("intro_binary", << 97 >>), Op("wrap_seal", << 102, 111, 111 >>), INL >>,
      << Op("intro_binary", << 97, 98 >>),
         Op("cons_array_chunk", << wikrt_i2v(1), WIKRT_UNIT, wikrt_i2v(2) >>) >> }

GcFills == { 0, 3, SizeCells - 10 }

InitGc ==
    /\ \E v \in GcValues, f \in GcFills :
          cx = Returned(RunOps(cx_create, FillOps(f) \o v))
    /\ cx.ecode = "OK"
    /\ ~Aborted(cx)
    /\ p = << >>
    /\ rbuf = << >>
    /\ pcp = "idle"
    /\ res = Op("start", 0)
    /\ g = [n |-> 0, pre |-> cx, prev |-> "start"]

GcCall(name) ==
    /\ g.n < MaxGcSteps
    /\ ~Aborted(cx)
    /\ \E u \in SumTags :
          cx' = Returned(Do([cx EXCEPT !.sum = u, !.ulr = u], name))
    /\ res' = Op(name, 0)
    /\ g' = [n |-> g.n + 1, pre |-> cx, prev |-> res.name]
    /\ UNCHANGED <<p, rbuf, pcp>>

GcCollect == /\ GcCall("cx_gc")
GcCopy    == /\ GcCall("copy")
GcUnwrap  == /\ GcCall("unwrap_sum")
GcDrop    == /\ GcCall("drop")
GcWswap   == /\ GcCall("wswap")

NextGc ==
    \/ GcCollect \/ GcCopy \/ GcUnwrap \/ GcDrop \/ GcWswap

GcSpec == InitGc /\ [][NextGc]_vars

----------------------------------------------------------------------------
(* Properties of GcSpec.                                                   *)

\* the n bytes at a lie in the active semi-space below alloc
InSpace(c, a, n) == c.mem <= a /\ a + n <= c.alloc

RECURSIVE Within(_, _)
RECURSIVE WithinSlots(_, _, _)
\* the n slots at a refer to cells in the active semi-space
WithinSlots(c, a, n) ==
    IF n = 0 THEN TRUE ELSE Within(c, rd(c, a)) /\ WithinSlots(c, a + WIKRT_VALSIZE, n - 1)
\* every cell, object and buffer reachable from v lies in the active
\* semi-space below alloc
Within(c, v) ==
    LET a  == wikrt_vaddr(v)
        tg == LOBYTE(rd(c, a))
    IN IF wikrt_copy_shallow(v) THEN TRUE
       ELSE IF ~wikrt_o(v) \/ tg \in SimpleOtags
       THEN /\ InSpace(c, a, WIKRT_CELLSIZE)
            /\ ~wikrt_o(v) => Within(c, rd(c, a))
            /\ Within(c, rd(c, a + WIKRT_VALSIZE))
       ELSE IF tg = WIKRT_OTAG_SEAL
       THEN /\ InSpace(c, a, WIKRT_CELLSIZE + (rd(c, a) \div 256))
            /\ Within(c, rd(c, a + WIKRT_VALSIZE))
       ELSE IF tg = WIKRT_OTAG_BINARY
       THEN /\ InSpace(c, a, 2 * WIKRT_CELLSIZE)
            /\ InSpace(c, rd(c, a + 3 * WIKRT_VALSIZE), rd(c, a + 2 * WIKRT_VALSIZE))
            /\ Within(c, rd(c, a + WIKRT_VALSIZE))
       ELSE IF tg = WIKRT_OTAG_ARRAY
       THEN /\ InSpace(c, a, 2 * WIKRT_CELLSIZE)
            /\ InSpace(c, rd(c, a + 3 * WIKRT_VALSIZE),
                       rd(c, a + 2 * WIKRT_VALSIZE) * WIKRT_VALSIZE)
            /\ WithinSlots(c, rd(c, a + 3 * WIKRT_VALSIZE), rd(c, a + 2 * WIKRT_VALSIZE))
            /\ Within(c, rd(c, a + WIKRT_VALSIZE))
       ELSE FALSE

GcRoots == { "val", "pc", "cc", "txn" }

\* the last call was wikrt_cx_gc
Collected == res.name = "cx_gc"

\* C18: after a compaction each root register denotes the value it
\* denoted before, all it reaches lies in the new active semi-space below
\* alloc, its vsize is what it was, the memory volume has not grown, and
\* the assertion of wikrt_mem_compact has not failed.
C18_CompactionKeepsRoots ==
    Collected =>
        /\ ~Aborted(cx)
        /\ cx.mem = g.pre.ssp
        /\ cx.compaction_count = g.pre.compaction_count + 1
        /\ \A r \in GcRoots :
              /\ ValOf(cx, cx[r]) = ValOf(g.pre, g.pre[r])
              /\ Within(cx, cx[r])
              /\ wikrt_vsize(cx, cx[r]) = wikrt_vsize(g.pre, g.pre[r])
        /\ wikrt_memory_volume(cx) <= wikrt_memory_volume(g.pre)

\* C18 happens: a binary with bytes already taken out was moved to the
\* other semi-space and memory was recovered
C18_Witness ==
    /\ Collected
    /\ g.prev = "unwrap_sum"
    /\ wikrt_p(cx.val) /\ wikrt_o(Fst(cx, Snd(cx, cx.val)))
    /\ ValOf(cx, Fst(cx, Snd(cx, cx.val)))[1] = "binary"
    /\ cx.val # g.pre.val
    /\ ValReg(cx) = ValReg(g.pre)
    /\ wikrt_memory_volume(cx) < wikrt_memory_volume(g.pre)

\* C19: a second wikrt_cx_gc right after a first leaves compaction_size as
\* the first left it and collects no byte.
C19_GcIdempotent ==
    (Collected /\ g.prev = "cx_gc") =>
        /\ ~Aborted(cx)
        /\ cx.compaction_size = g.pre.compaction_size
        /\ cx.bytes_collected = g.pre.bytes_collected
        /\ cx.compaction_count = g.pre.compaction_count + 1

\* C19 happens: the first of two collections had collected memory, the
\* second collected none
C19_Witness ==
    /\ Collected /\ g.prev = "cx_gc"
    /\ g.n = MaxGcSteps
    /\ g.pre.bytes_collected > 0
    /\ g.pre.compaction_size > 0
    /\ cx.compaction_size = g.pre.compaction_size
    /\ cx.bytes_collected = g.pre.bytes_collected

\* the last call was wikrt_copy of a value on the stack, made without an
\* error latched, and it returned without an error
Copied ==
    /\ res.name = "copy"
    /\ g.pre.ecode = "OK"
    /\ wikrt_p(g.pre.val)
    /\ cx.ecode = "OK"

\* the bytes allocated since the volume was last known: since the call,
\* or since the compaction the call made
CopyAllocated ==
    IF cx.compaction_count = g.pre.compaction_count
    THEN wikrt_memory_volume(cx) - wikrt_memory_volume(g.pre)
    ELSE wikrt_memory_volume(cx) - cx.compaction_size

\* C20: wikrt_copy never reaches the abort on the size estimate; a copy
\* that returns without error has allocated one cell and the vsize of the
\* value, and the vsize of the copy is the vsize of the original.
C20_CopySize ==
    /\ res.name = "copy" => ~Aborted(cx)
    /\ Copied =>
          /\ CopyAllocated = WIKRT_CELLSIZE + wikrt_vsize(g.pre, Fst(g.pre, g.pre.val))
          /\ wikrt_vsize(cx, Fst(cx, cx.val)) = wikrt_vsize(g.pre, Fst(g.pre, g.pre.val))
          /\ wikrt_vsize(cx, Fst(cx, Snd(cx, cx.val)))
                = wikrt_vsize(g.pre, Fst(g.pre, g.pre.val))
          /\ TopVal(cx) = TopVal(g.pre)
          /\ RestVal(cx) = ValReg(g.pre)

\* C20 happens: a binary was copied where the arena had no room for the
\* bypass of the estimate, and the estimate was the allocation
C20_Witness ==
    /\ Copied
    /\ ~wikrt_mem_available(g.pre, WIKRT_CELLSIZE + wikrt_memory_volume(g.pre))
    /\ TopVal(g.pre)[1] = "binary"
    /\ CopyAllocated = WIKRT_CELLSIZE + wikrt_vsize(g.pre, Fst(g.pre, g.pre.val))
    /\ CopyAllocated > 3 * WIKRT_CELLSIZE
----------------------------------------------------------------------------
(* Specification FullSpec: allocating primitives over arenas that have     *)
(* between no cell and a few cells left after a compaction.                *)

MaxFullSteps == 2

\* the values under the calls: two blocks (plain, decorated), a value with
\* substructure, integers
FullValues ==
    { << I1 >>,
      << IDB, IDB >>,
      << IDB, IDB, AFF, Op("block_lazy", 0) >>,
      << IDB, Op("block_fork", 0), IDB >>,
      << I2, IDB, REL >>,
      << I1, IDB, AFF, REL >>,
      << I2, INL, INR >> }

\* units under the value: the arena is left with 0 to 7 free cells
FullFills == (SizeCells - 10) .. (SizeCells - 2)

FullTexts == { << 97 >>, << 97, 98, 99, 100, 101, 102, 103, 104, 105 >>, << 128 >> }

InitFull ==
    /\ \E v \in FullValues, f \in FullFills :
          cx = Returned(RunOps(cx_create, FillOps(f) \o v))
    /\ cx.ecode = "OK"
    /\ ~Aborted(cx)
    /\ p = << >>
    /\ rbuf = << >>
    /\ pcp = "idle"
    /\ res = Op("start", 0)
    /\ g = [n |-> 0, pre |-> cx, prev |-> "start"]

FullCall(name, arg) ==
    /\ g.n < MaxFullSteps
    /\ ~Aborted(cx)
    /\ cx' = Returned(DoA(cx, name, arg))
    /\ res' = Op(name, arg)
    /\ g' = [n |-> g.n + 1, pre |-> cx, prev |-> res.name]
    /\ UNCHANGED <<p, rbuf, pcp>>

FullIntroText == /\ \E s \in FullTexts : FullCall("intro_text", s)
FullTrash     == /\ FullCall("trash", 0)
FullQuote     == /\ FullCall("quote", 0)
FullCompose   == /\ FullCall("compose", 0)
FullIntroUnit == /\ FullCall("intro_unit", 0)
FullWrapSum   == /\ \E u \in SumTags : FullCall("wrap_sum", u)
FullCopy      == /\ FullCall("copy", 0)
FullDrop      == /\ FullCall("drop", 0)

NextFull ==
    \/ FullIntroText \/ FullTrash \/ FullQuote \/ FullCompose
    \/ FullIntroUnit \/ FullWrapSum \/ FullCopy \/ FullDrop

FullSpec == InitFull /\ [][NextFull]_vars

----------------------------------------------------------------------------
(* Properties of FullSpec.                                                 *)

\* the last call, made without an error latched, latched CXFULL
Exhausted == g.pre.ecode = "OK" /\ cx.ecode = "CXFULL" /\ res.name # "start"

\* C21: an allocating primitive that latches CXFULL leaves the value
\* register denoting the value it denoted before the call.
C21_ExhaustionKeepsValue ==
    Exhausted => (~Aborted(cx) /\ ValReg(cx) = ValReg(g.pre))

\* the primitives that reserve once, before any write, keep the value
SingleReserveKeepsValue ==
    (Exhausted /\ res.name \in { "intro_unit", "quote", "wrap_sum", "copy" })
        => (~Aborted(cx) /\ ValReg(cx) = ValReg(g.pre))
----------------------------------------------------------------------------
(* Specification BlockSpec: attributes, quotation and composition applied  *)
(* to the blocks on the stack.  g.pre is the context before the last call, *)
(* g.pre2 the one before the call before it, g.prev that call's name.      *)

MaxBlockSteps == 4

BlockStarts ==
    { << IDB, IDB >>,
      << I1, IDB, IDB, AFF >>,
      << IDB >> \o BlockOps(2, 0, << >>),
      << IDB, LZY >> \o BlockOps(1, 0, << REL >>),
      << I2 >> }

InitBlock ==
    /\ \E v \in BlockStarts : cx = Returned(RunOps(cx_create, v))
    /\ cx.ecode = "OK"
    /\ ~Aborted(cx)
    /\ p = << >>
    /\ rbuf = << >>
    /\ pcp = "idle"
    /\ res = Op("start", 0)
    /\ g = [n |-> 0, pre |-> cx, pre2 |-> cx, prev |-> "start"]

BlockCall(name) ==
    /\ g.n < MaxBlockSteps
    /\ ~Aborted(cx)
    /\ cx' = Returned(Do(cx, name))
    /\ res' = Op(name, 0)
    /\ g' = [n |-> g.n + 1, pre |-> cx, pre2 |-> g.pre, prev |-> res.name]
    /\ UNCHANGED <<p, rbuf, pcp>>

AttrAff     == /\ BlockCall("block_aff")
AttrRel     == /\ BlockCall("block_rel")
AttrLazy    == /\ BlockCall("block_lazy")
AttrFork    == /\ BlockCall("block_fork")
AttrQuote   == /\ BlockCall("quote")
AttrCompose == /\ BlockCall("compose")

NextBlock ==
    \/ AttrAff \/ AttrRel \/ AttrLazy \/ AttrFork \/ AttrQuote \/ AttrCompose

BlockSpec == InitBlock /\ [][NextBlock]_vars

----------------------------------------------------------------------------
(* Properties of BlockSpec.                                                *)

\* bit b (a power of 2) is set in w
HasBit(w, b) == (w \div b) % 2 = 1

\* the attribute a call names
AttribOf(name) ==
    CASE name = "block_aff"  -> WIKRT_BLOCK_AFFINE
      [] name = "block_rel"  -> WIKRT_BLOCK_RELEVANT
      [] name = "block_lazy" -> WIKRT_BLOCK_LAZY
      [] name = "block_fork" -> WIKRT_BLOCK_FORK
      [] OTHER -> 0

SafeCalls == { "block_aff", "block_rel" }
UnsafeCalls == { "block_lazy", "block_fork" }

\* the tree t is that of a block
IsBlockTree(t) == t[1] = "obj" /\ t[2] % 256 = WIKRT_OTAG_BLOCK

RECURSIVE NoLazyFork(_)
\* no block header in the tree t carries both LAZY and FORK
NoLazyFork(t) ==
    CASE t[1] = "pair" -> NoLazyFork(t[2]) /\ NoLazyFork(t[3])
      [] t[1] \in { "inl", "inr" } -> NoLazyFork(t[2])
      [] t[1] = "obj" ->
            /\ IsBlockTree(t) =>
                  ~(HasBit(t[2], WIKRT_BLOCK_LAZY) /\ HasBit(t[2], WIKRT_BLOCK_FORK))
            /\ NoLazyFork(t[3])
      [] OTHER -> TRUE

\* the block [[t] inline] with the attribute attrib on the outer header
QuoteInline(t, attrib) ==
    << "obj", WIKRT_OTAG_BLOCK + attrib,
       << "inl", << "pair", << "obj", WIKRT_OTAG_OPVAL + WIKRT_OPVAL_LAZYKF, t >>,
                            << "inl", << "pair", << "int", ACCEL_INLINE >>,
                                                 << "inr", << "unit" >> >> >> >> >> >> >>

\* the block t with attrib set in its header
WithAttrib(t, attrib) == << "obj", BitOr(t[2], attrib), t[3] >>

\* the last call was an attribution on a stack with a block on top
Attributed ==
    /\ AttribOf(res.name) # 0
    /\ wikrt_p(g.pre.val)
    /\ IsBlockTree(TopVal(g.pre))

\* the last call met the rare case: an unsafe attribute for a block that
\* carries one
Rewrapped ==
    /\ Attributed
    /\ res.name \in UnsafeCalls
    /\ UnsafeAttribs(TopVal(g.pre)[2]) # 0

\* C22: no block header carries both LAZY and FORK; LAZY or FORK on a block
\* with an unsafe flag gives [[old block] inline] with the new flag; in all
\* other cases the attribute is set on the block in place, and AFFINE and
\* RELEVANT are idempotent and independent of their order.
C22_OneUnsafeFlag ==
    /\ wikrt_p(cx.val) => NoLazyFork(ValReg(cx))
    /\ (Rewrapped /\ cx.ecode = "OK") =>
          /\ TopVal(cx) = QuoteInline(TopVal(g.pre), AttribOf(res.name))
          /\ RestVal(cx) = RestVal(g.pre)
    /\ (Attributed /\ ~Rewrapped) =>
          /\ TopVal(cx) = WithAttrib(TopVal(g.pre), AttribOf(res.name))
          /\ RestVal(cx) = RestVal(g.pre)
          /\ cx.val = g.pre.val
          /\ cx.alloc = g.pre.alloc
          /\ cx.ecode = g.pre.ecode
    /\ (Attributed /\ res.name \in SafeCalls /\ g.prev = res.name) =>
          ValReg(cx) = ValReg(g.pre)
    /\ (Attributed /\ res.name \in SafeCalls /\ g.prev \in SafeCalls) =>
          TopVal(cx) = WithAttrib(WithAttrib(TopVal(g.pre2), WIKRT_BLOCK_AFFINE),
                                  WIKRT_BLOCK_RELEVANT)
                          \/ g.prev = res.name

\* C22 happens: FORK was applied to a LAZY block that had AFFINE set, and
\* the result is a FORK block around the quoted LAZY AFFINE block
C22_Witness ==
    /\ Rewrapped
    /\ cx.ecode = "OK"
    /\ res.name = "block_fork"
    /\ HasBit(TopVal(g.pre)[2], WIKRT_BLOCK_LAZY)
    /\ HasBit(TopVal(g.pre)[2], WIKRT_BLOCK_AFFINE)
    /\ TopVal(cx)[2] = WIKRT_OTAG_BLOCK + WIKRT_BLOCK_FORK
    /\ TopVal(cx)[3][2][2][3] = TopVal(g.pre)
----------------------------------------------------------------------------
(* Specification SealSpec: values are sealed and unsealed.  Whether char   *)
(* is signed is the build's choice (g.signed); g.name holds the bytes of   *)
(* the last name given to wikrt_wrap_seal, res.arg the bytes the last      *)
(* wikrt_unwrap_seal wrote to its buffer.                                  *)

MaxSealSteps == 3

\* names: ":", ":a", ":ab", ":abc", "ab", "a", "foo:", ":" with U+00E9,
\* U+00E9, ":a" with U+00E9; not tokens: "", "{", "a}", a name of the
\* length of the token buffer, a lone continuation byte, a control code
SealNames ==
    { << 58 >>, << 58, 97 >>, << 58, 97, 98 >>, << 58, 97, 98, 99 >>,
      << 97, 98 >>, << 97 >>, << 102, 111, 111, 58 >>,
      << 58, 195, 169 >>, << 195, 169 >>, << 58, 97, 195, 169 >>,
      << >>, << 123 >>, << 97, 125 >>, [i \in 1..WIKRT_TOK_BUFFSZ |-> 97],
      << 169 >>, << 58, 7 >> }

SealStarts ==
    { << I1 >>, << I1, I2, AL >>, << I2, IDB, AFF >>, << I1, I2, INL >>, << >> }

\* the bytes of a name as the chars the build reads
CharsOf(bytes, signed) ==
    [i \in 1..Len(bytes) |-> IF signed /\ bytes[i] >= 128 THEN bytes[i] - 256 ELSE bytes[i]]

InitSeal ==
    /\ \E v \in SealStarts : cx = Returned(RunOps(cx_create, v))
    /\ cx.ecode = "OK"
    /\ ~Aborted(cx)
    /\ p = << >>
    /\ rbuf = << >>
    /\ pcp = "idle"
    /\ res = Op("start", 0)
    /\ \E sg \in BOOLEAN :
          g = [n |-> 0, pre |-> cx, pre2 |-> cx, prev |-> "start", name |-> << >>,
               signed |-> sg]

SealCall(name, arg, nm) ==
    /\ g.n < MaxSealSteps
    /\ ~Aborted(cx)
    /\ cx' = Returned(DoA(cx, name, arg))
    /\ res' = Op(name, DoA(cx, name, arg).buf)
    /\ g' = [g EXCEPT !.n = @ + 1, !.pre = cx, !.pre2 = g.pre, !.prev = res.name,
                      !.name = nm]
    /\ UNCHANGED <<p, rbuf, pcp>>

SealWrap   == /\ \E nm \in SealNames : SealCall("wrap_seal", CharsOf(nm, g.signed), nm)
SealUnwrap == /\ SealCall("unwrap_seal", 0, g.name)
SealWswap  == /\ SealCall("wswap", 0, g.name)

NextSeal ==
    \/ SealWrap \/ SealUnwrap \/ SealWswap

SealSpec == InitSeal /\ [][NextSeal]_vars

----------------------------------------------------------------------------
(* Properties of SealSpec.                                                 *)

RECURSIVE CStr(_)
\* the C string in a buffer: the bytes before the first NUL
CStr(b) == IF b = << >> \/ b[1] = 0 THEN << >> ELSE << b[1] >> \o CStr(Tail(b))

\* the last call was wikrt_unwrap_seal, right after a wikrt_wrap_seal of a
\* valid token over a value, both made without an error latched
Unsealed ==
    /\ res.name = "unwrap_seal"
    /\ g.prev = "wrap_seal"
    /\ wikrt_valid_token(g.name)
    /\ g.pre2.ecode = "OK"
    /\ wikrt_p(g.pre2.val)

\* the last call was wikrt_wrap_seal with a name that is no token
Refused ==
    /\ res.name = "wrap_seal"
    /\ ~wikrt_valid_token(g.name)
    /\ g.pre.ecode = "OK"

\* C23: wrap_seal(name) then unwrap_seal(buf) writes name, NUL-terminated,
\* and leaves the value as it was; wrap_seal with an invalid token latches
\* INVAL and leaves the value unchanged.
C23_SealRoundTrip ==
    /\ Unsealed =>
          /\ ~Aborted(cx)
          /\ cx.ecode = "OK"
          /\ res.arg # << >>
          /\ res.arg[Len(res.arg)] = 0
          /\ CStr(res.arg) = g.name
          /\ ValReg(cx) = ValReg(g.pre2)
    /\ Refused =>
          /\ cx.ecode = "INVAL"
          /\ cx.val = g.pre.val
          /\ ValReg(cx) = ValReg(g.pre)

\* the round trip holds for names of bytes below 128 and for the general
\* encoding, and on builds with unsigned char
AsciiSealRoundTrip ==
    /\ (Unsealed /\ (~g.signed \/ g.name[1] # WIKRT_OTAG_SEAL_SM
                      \/ \A i \in 1..Len(g.name) : g.name[i] < 128)) =>
          /\ cx.ecode = "OK"
          /\ CStr(res.arg) = g.name
          /\ ValReg(cx) = ValReg(g.pre2)
    /\ Refused =>
          /\ cx.ecode = "INVAL"
          /\ ValReg(cx) = ValReg(g.pre)
----------------------------------------------------------------------------
(* Specification ArenaSpec: reservations of every size, allocating         *)
(* primitives, collections and the statistics call, on arenas from empty   *)
(* to full.  g.sizes is the sequence of the working-set sizes (cap - mem)  *)
(* chosen by the collections that succeeded, the latest first.             *)

MaxArenaSteps == 4

ArenaFills == { 0, 1, 5, 12, SizeCells - 4, SizeCells - 1, SizeCells }

\* requests, in bytes: none, cells, most of the arena, all of it, more
ArenaRequests ==
    { 0, WIKRT_CELLSIZE, 3 * WIKRT_CELLSIZE, 8 * WIKRT_CELLSIZE, 12 * WIKRT_CELLSIZE,
      cx_size - WIKRT_CELLSIZE, cx_size, cx_size + WIKRT_CELLSIZE }

InitArena ==
    /\ \E f \in ArenaFills : cx = Returned(RunOps(cx_create, FillOps(f)))
    /\ ~Aborted(cx)
    /\ p = << >>
    /\ rbuf = << >>
    /\ pcp = "idle"
    /\ res = Op("start", 0)
    /\ g = [n |-> 0, pre |-> cx, prev |-> "start", sizes |-> << >>]

\* wikrt_mem_reserve(c, sz) returns true: the space is there, or it is
\* there after the compaction (wikrt_mem_gc_then_reserve tests it before
\* the heuristic and returns true whatever the heuristic does)
ReserveReturns(c, sz) ==
    \/ wikrt_mem_available(c, sz)
    \/ wikrt_mem_available(Do(c, "mem_compact"), sz)

\* the wikrt_mem_gc_then_reserve made by the call name(arg) from c to c2
\* returned true
GcReturnsTrue(c, name, arg, c2) ==
    CASE name = "mem_reserve" -> ReserveReturns(c, arg)
      [] name = "cx_gc" -> TRUE
      [] OTHER -> c.ecode = "OK" /\ c2.ecode = "OK"

\* the collections of a call are seen in compaction_count; the primitives
\* of ArenaSpec make at most one
ArenaCall(name, arg) ==
    /\ g.n < MaxArenaSteps
    /\ ~Aborted(cx)
    /\ cx' = Returned(DoA(cx, name, arg))
    /\ res' = Op(name, arg)
    /\ g' = [n |-> g.n + 1, pre |-> cx, prev |-> res.name,
             sizes |-> IF cx'.compaction_count # cx.compaction_count
                          /\ GcReturnsTrue(cx, name, arg, cx')
                       THEN << cx'.cap - cx'.mem >> \o g.sizes ELSE g.sizes]
    /\ UNCHANGED <<p, rbuf, pcp>>

ArenaReserve   == /\ \E n \in ArenaRequests : ArenaCall("mem_reserve", n)
ArenaIntroUnit == /\ ArenaCall("intro_unit", 0)
ArenaBinary    == /\ \E d \in { << 97 >>, [i \in 1..20 |-> 97] } : ArenaCall("intro_binary", d)
ArenaCopy      == /\ ArenaCall("copy", 0)
ArenaDrop      == /\ ArenaCall("drop", 0)
ArenaGc        == /\ ArenaCall("cx_gc", 0)
ArenaPeek      == /\ ArenaCall("peek_mem_stats", 0)

NextArena ==
    \/ ArenaReserve \/ ArenaIntroUnit \/ ArenaBinary \/ ArenaCopy \/ ArenaDrop
    \/ ArenaGc \/ ArenaPeek

ArenaSpec == InitArena /\ [][NextArena]_vars

----------------------------------------------------------------------------
(* Properties of ArenaSpec.                                                *)

\* the last call was wikrt_mem_reserve and it returned true
Reserved == res.name = "mem_reserve" /\ ReserveReturns(g.pre, res.arg)

\* C25: mem <= alloc <= cap <= mem + size and compaction_size <= alloc -
\* mem in every state, the assertion of wikrt_peek_mem_stats never fails,
\* and after a wikrt_mem_reserve(n) that returned true cap - alloc >= n.
C25_ArenaBounds ==
    /\ ~Aborted(cx)
    /\ cx.mem <= cx.alloc
    /\ cx.alloc <= cx.cap
    /\ cx.cap <= cx.mem + cx_size
    /\ cx.compaction_size <= cx.alloc - cx.mem
    /\ Reserved => cx.cap - cx.alloc >= res.arg
    /\ (res.name = "mem_reserve" /\ ~Reserved) =>
          (cx.ecode # "OK" /\ cx.cap - cx.alloc < res.arg)

\* C25 happens: a reservation of 3 cells compacted a filled arena,
\* returned true, and the heuristic lowered cap
C25_Witness ==
    /\ Reserved
    /\ res.arg = 3 * WIKRT_CELLSIZE
    /\ cx.compaction_count = g.pre.compaction_count + 1
    /\ cx.alloc > cx.mem
    /\ cx.cap < cx.mem + cx_size
    /\ cx.cap - cx.alloc >= res.arg

\* C26: the working set chosen at a collection, cap - mem where
\* wikrt_mem_gc_then_reserve returns true, is never smaller than the one
\* chosen at the collection before.
C26_MonotoneGrowth ==
    \A i \in 1..(Len(g.sizes) - 1) : g.sizes[i] >= g.sizes[i + 1]

\* the working set never exceeds the arena and leaves room for the request
WorkingSetWithinArena ==
    \A i \in 1..Len(g.sizes) : 0 <= g.sizes[i] /\ g.sizes[i] <= cx_size
----------------------------------------------------------------------------
(* Specification StackSpec: the copy loop of wikrt_copy_rs taken one       *)
(* iteration at a time.  cx is the context in the middle of the copy; the  *)
(* task stack lies in the arena between cx.cs and the cap the copy began   *)
(* with.  g.ph is "idle" between calls, "copy" inside the wikrt_copy_r of  *)
(* a wikrt_copy, "gc" inside a wikrt_copy_r of wikrt_mem_compact, and      *)
(* "copied" / "collected" when the last wikrt_copy_r has returned.         *)
(* g.frames holds, innermost first, s0 and (NULL != ss) of each active     *)
(* call of wikrt_copy_rs; g.dst is the slot the next iteration fills.      *)
(* g.at is "obj" before the body of the loop and "next" before its         *)
(* condition, where the next task is popped.                               *)
(* g.a0, g.top and g.need are alloc and cap at the start of the present    *)
(* wikrt_copy_r and the wikrt_vsize of the value it copies.                *)

MaxStackSteps == 2

StackValues ==
    GcValues \cup
    { << I1, I2, AL, I1, I2, AL, AL >>,
      << I1, I2, AL, I1, I2, AL, AL, QT, QT >>,
      << I1, I2, AL, QT, I2, INL, QT, Op("compose", 0) >> }

StackFills == { 0, 3, SizeCells - 12 }

InitStack ==
    /\ \E v \in StackValues, f \in StackFills :
          cx = Returned(RunOps(cx_create, FillOps(f) \o v))
    /\ cx.ecode = "OK"
    /\ ~Aborted(cx)
    /\ p = << >>
    /\ rbuf = << >>
    /\ pcp = "idle"
    /\ res = Op("start", 0)
    /\ g = [n |-> 0, ph |-> "idle", at |-> "obj", frames |-> << >>, dst |-> REG,
            regs |-> << >>,
            a0 |-> 0, top |-> 0, need |-> 0, c0 |-> cx, c1 |-> cx]

\* the order in which wikrt_mem_compact copies the root registers
RootOrder == << "txn", "cc", "pc", "val" >>

\* wikrt_mem_compact from register Head(regs) on, up to the first register
\* whose wikrt_copy_r enters the loop: k is the context at the entry of
\* that loop, and regs is empty when every register left was shallow
RECURSIVE EnterRoots(_, _)
EnterRoots(k, regs) ==
    IF regs = << >> \/ Aborted(k) THEN [c |-> k, regs |-> << >>]
    ELSE IF wikrt_copy_shallow(k[Head(regs)])
    THEN EnterRoots(CompactReg(k, Head(regs)), Tail(regs))
    ELSE [c |-> [k EXCEPT !.cs = k.cap, !.rv = k[Head(regs)]], regs |-> regs]

\* the object at dst is an OPVAL whose value wikrt_copy_rs copies by a
\* nested call
Nests(c, sson, dst) ==
    /\ wikrt_o(Deref(c, dst))
    /\ LOBYTE(rd(c, wikrt_vaddr(Deref(c, dst)))) = WIKRT_OTAG_OPVAL
    /\ HideSS(sson, rd(c, wikrt_vaddr(Deref(c, dst))))
    /\ ~wikrt_copy_shallow(rd(c, wikrt_vaddr(Deref(c, dst)) + WIKRT_VALSIZE))

\* the OPVAL cell of the nested case, before the nested call
NestCell(c, dst) ==
    Store(Store(Store(wikrt_alloc_r(c, WIKRT_CELLSIZE), dst,
                      wikrt_tag_addr(WIKRT_O, c.alloc)),
                c.alloc, rd(c, wikrt_vaddr(Deref(c, dst)))),
          c.alloc + WIKRT_VALSIZE, rd(c, wikrt_vaddr(Deref(c, dst)) + WIKRT_VALSIZE))

\* the calls of wikrt_copy_rs that return once the stack is back at cs
RECURSIVE Unwind(_, _)
Unwind(cs, frames) ==
    IF frames = << >> \/ Head(frames).s0 # cs THEN frames ELSE Unwind(cs, Tail(frames))

\* the ghost of a wikrt_copy_r that enters its loop in context k for lval
Entered(ph, k, lval, sson, regs, c0, c1) ==
    [n |-> g.n, ph |-> ph, at |-> "obj", frames |-> << [s0 |-> k.cap, sson |-> sson] >>,
     dst |-> REG,
     regs |-> regs, a0 |-> k.alloc, top |-> k.cap, need |-> wikrt_vsize(k, lval),
     c0 |-> c0, c1 |-> c1]

\* wikrt_copy up to the loop of wikrt_copy_r: the type check, the bypass
\* or the estimate, the reservation
StackCopy ==
    /\ g.ph = "idle" /\ g.n < MaxStackSteps
    /\ ~Aborted(cx) /\ wikrt_p(cx.val) /\ ~wikrt_copy_shallow(Fst(cx, cx.val))
    /\ LET bypass == WIKRT_ALLOW_SIZE_BYPASS
                       /\ wikrt_mem_available(cx, WIKRT_CELLSIZE + wikrt_memory_volume(cx))
           est    == IF bypass THEN 0 ELSE wikrt_peek_size_ssp(cx)
           c1     == Reserve([cx EXCEPT !.ss = 0], est)
           lval   == Fst(c1, c1.val)
       IN /\ est # -1
          /\ MemReserved(c1, est)
          /\ cx' = [c1 EXCEPT !.cs = c1.cap, !.rv = lval, !.ss = 0]
          /\ g' = Entered("copy", c1, lval, TRUE, << >>, cx, c1)
    /\ res' = Op("copy", 0)
    /\ UNCHANGED <<p, rbuf, pcp>>

\* wikrt_cx_gc up to the loop of the first wikrt_copy_r that has one
StackGc ==
    /\ g.ph = "idle" /\ g.n < MaxStackSteps
    /\ ~Aborted(cx)
    /\ LET k == EnterRoots([cx EXCEPT !.mem = cx.ssp, !.ssp = cx.mem, !.alloc = cx.ssp,
                                      !.cap = cx.ssp + cx_size], RootOrder)
       IN /\ k.regs # << >>
          /\ cx' = k.c
          /\ g' = Entered("gc", k.c, k.c.rv, FALSE, k.regs, cx, cx)
    /\ res' = Op("cx_gc", 0)
    /\ UNCHANGED <<p, rbuf, pcp>>

\* the loop condition in context k: the next task is popped, or the calls
\* return; after the last return of a compaction the register is set and
\* the next register entered
AfterObj(k) ==
    LET fr == Unwind(k.cs, g.frames)
    IN IF Aborted(k)
       THEN /\ cx' = k
            /\ g' = [g EXCEPT !.ph = "aborted"]
       ELSE IF fr # << >>
       THEN /\ cx' = [k EXCEPT !.cs = @ + WIKRT_VALSIZE]
            /\ g' = [g EXCEPT !.at = "obj", !.frames = fr, !.dst = rd(k, k.cs)]
       ELSE IF g.ph = "copy"
       THEN /\ cx' = k
            /\ g' = [g EXCEPT !.ph = "copied", !.at = "obj", !.frames = << >>]
       ELSE LET e == EnterRoots(SetReg(k, Head(g.regs)), Tail(g.regs))
            IN /\ cx' = e.c
               /\ g' = IF e.regs = << >>
                       THEN [g EXCEPT !.ph = "collected", !.at = "obj", !.frames = << >>,
                                      !.regs = << >>]
                       ELSE Entered("gc", e.c, e.c.rv, FALSE, e.regs, g.c0, g.c1)

\* the body of the do-while loop of wikrt_copy_rs: one object is copied
StackStep ==
    /\ g.ph \in { "copy", "gc" } /\ g.at = "obj"
    /\ ~Nests(cx, Head(g.frames).sson, g.dst)
    /\ cx' = CopyObj(cx, Head(g.frames).sson, g.dst)
    /\ g' = [g EXCEPT !.at = "next"]
    /\ UNCHANGED <<p, rbuf, pcp, res>>

\* the condition of the loop
StackNext ==
    /\ g.ph \in { "copy", "gc" } /\ g.at = "next"
    /\ AfterObj(cx)
    /\ UNCHANGED <<p, rbuf, pcp, res>>

\* the iteration that copies an OPVAL and calls wikrt_copy_rs for its value
StackNest ==
    /\ g.ph \in { "copy", "gc" } /\ g.at = "obj"
    /\ Nests(cx, Head(g.frames).sson, g.dst)
    /\ cx' = NestCell(cx, g.dst)
    /\ g' = [g EXCEPT !.frames = << [s0 |-> cx.cs, sson |-> FALSE] >> \o @,
                      !.dst = cx.alloc + WIKRT_VALSIZE]
    /\ UNCHANGED <<p, rbuf, pcp, res>>

\* the rest of the call after the last wikrt_copy_r
StackReturn ==
    /\ g.ph \in { "copied", "collected" }
    /\ cx' = Returned(Do(g.c0, res.name))
    /\ g' = [g EXCEPT !.n = @ + 1, !.ph = "idle", !.dst = REG, !.a0 = 0, !.top = 0,
                      !.need = 0, !.c0 = cx', !.c1 = cx']
    /\ UNCHANGED <<p, rbuf, pcp, res>>

\* calls between the copies
StackCall(name) ==
    /\ g.ph = "idle" /\ g.n < MaxStackSteps
    /\ ~Aborted(cx)
    /\ cx' = Returned(Do(cx, name))
    /\ res' = Op(name, 0)
    /\ g' = [g EXCEPT !.n = @ + 1, !.c0 = cx', !.c1 = cx']
    /\ UNCHANGED <<p, rbuf, pcp>>

StackDrop  == /\ StackCall("drop")
StackWswap == /\ StackCall("wswap")

NextStack ==
    \/ StackCopy \/ StackGc \/ StackStep \/ StackNext \/ StackNest \/ StackReturn
    \/ StackDrop \/ StackWswap

StackSpec == InitStack /\ [][NextStack]_vars

----------------------------------------------------------------------------
(* Properties of StackSpec.                                                *)

\* a wikrt_copy_r is in its loop
Copying == g.ph \in { "copy", "gc" }

\* the task words on the stack, and the bytes the copy has yet to allocate
PendingWords == (g.top - cx.cs) \div WIKRT_VALSIZE
ToAllocate == g.need - (cx.alloc - g.a0)

\* the task word at a names a slot of the copy that still holds a
\* reference to the source
TaskIntact(a) ==
    /\ g.a0 <= rd(cx, a) /\ rd(cx, a) < cx.alloc
    /\ ~wikrt_copy_shallow(rd(cx, rd(cx, a)))
    /\ ~(g.a0 <= wikrt_vaddr(rd(cx, rd(cx, a))) /\ wikrt_vaddr(rd(cx, rd(cx, a))) < g.top)

\* C27: at every iteration of a copy (of a wikrt_copy into reserved space
\* or of a compaction) the task stack below cap holds at most as many words
\* as there are bytes still to be allocated, it lies above alloc, and every
\* task on it is as it was pushed.
C27_CopyStackBound ==
    Copying =>
        /\ ~Aborted(cx)
        /\ g.top = cx.cap
        /\ cx.cs <= g.top
        /\ PendingWords <= ToAllocate
        /\ cx.alloc <= cx.cs
        /\ \A i \in 0..(PendingWords - 1) : TaskIntact(cx.cs + (i * WIKRT_VALSIZE))

\* C27 happens: two tasks are pending in the middle of a copy while every
\* byte between alloc and the stack is still to be allocated
C27_Witness ==
    /\ g.ph = "copy"
    /\ PendingWords = 2
    /\ cx.alloc > g.a0
    /\ cx.cs - cx.alloc = ToAllocate

\* the iterations taken one by one arrive where the calls of the model
\* arrive
StepwiseAgrees ==
    /\ g.ph = "copied" =>
          cx = DoA(g.c1, "copy_r", << Fst(g.c1, g.c1.val), TRUE >>)
    /\ g.ph = "collected" =>
          CompactStats(cx, wikrt_memory_volume(g.c0)) = Do(g.c0, "mem_compact")
    /\ g.ph # "aborted"
----------------------------------------------------------------------------
(* Specification ReadSpec: a client holds a text (a list of code points    *)
(* in cells, a UTF8 text over binary chunks, a binary, or cells in front   *)
(* of a UTF8 text) and calls wikrt_read_text again and again with buffers  *)
(* of 4 bytes and more.  g.out is what the calls have returned so far,     *)
(* g.expect the UTF-8 encoding of the text at the start, g.mixed whether   *)
(* the text has cells in front of a UTF8 object.  A byte of the buffer     *)
(* the call never wrote holds cx.ub.                                       *)

MaxReadSteps == 4

RECURSIVE RawBytes(_)
\* the bytes of a list tree of bytes, in cells and binary chunks; -1 stands
\* for what is no byte
RawBytes(t) ==
    CASE t[1] = "inl" /\ t[2][1] = "pair" ->
            (IF t[2][2][1] = "int" THEN << t[2][2][2] >> ELSE << -1 >>) \o RawBytes(t[2][3])
      [] t[1] = "binary" -> t[2] \o RawBytes(t[3])
      [] t[1] = "inr" /\ t[2] = << "unit" >> -> << >>
      [] OTHER -> << -1 >>

RECURSIVE Utf8Encode(_)
\* the bytes of a sequence of code points
Utf8Encode(cps) ==
    IF cps = << >> THEN << >>
    ELSE utf8_writecp_unsafe(Head(cps)) \o Utf8Encode(Tail(cps))

RECURSIVE TextEncoding(_)
\* the UTF-8 encoding of a text tree: a cell holds a code point, a binary
\* chunk holds code points below 256, a UTF8 object holds the encoding
TextEncoding(t) ==
    CASE t[1] = "inl" /\ t[2][1] = "pair" ->
            (IF t[2][2][1] = "int" THEN utf8_writecp_unsafe(t[2][2][2]) ELSE << -1 >>)
               \o TextEncoding(t[2][3])
      [] t[1] = "binary" -> Utf8Encode(t[2]) \o TextEncoding(t[3])
      [] t[1] = "obj" /\ LOBYTE(t[2]) = WIKRT_OTAG_UTF8 -> RawBytes(t[3])
      [] t[1] = "inr" /\ t[2] = << "unit" >> -> << >>
      [] OTHER -> << -1 >>

RECURSIVE WholeCodePoints(_)
\* bs is a sequence of complete UTF-8 sequences
WholeCodePoints(bs) ==
    IF bs = << >> THEN TRUE
    ELSE IF utf8_readcp(bs) = 0 THEN FALSE
    ELSE WholeCodePoints(SubSeq(bs, utf8_readcp(bs) + 1, Len(bs)))

\* the encoding of the list on top of the stack
Unread(c) == TextEncoding(ValOf(c, Fst(c, c.val)))

\* the calls that push a text, and whether cells stand in front of a UTF8
\* object
ReadTexts ==
    { [ops |-> TextOps(<< 97, 233, 98 >>), mixed |-> FALSE],
      [ops |-> TextOps(<< 8364, 97, 128512, 98, 99 >>), mixed |-> FALSE],
      [ops |-> << Op("intro_text", << 97, 195, 169, 98, 99 >>) >>, mixed |-> FALSE],
      [ops |-> << Op("intro_text", << 97, 98, 99, 195, 169 >>) >>, mixed |-> FALSE],
      [ops |-> << Op("intro_text", << 97, 226, 130, 172, 98 >>) >>, mixed |-> FALSE],
      [ops |-> << Op("intro_text", << 97, 240, 159, 152, 128, 98 >>) >>, mixed |-> FALSE],
      [ops |-> << Op("intro_text", << >>) >>, mixed |-> FALSE],
      [ops |-> << Op("intro_binary", << 97, 98, 99, 100, 101 >>) >>, mixed |-> FALSE],
      [ops |-> << Op("intro_binary", << 98 >>), Op("cons_binary_chunk", << 97, 233 >>) >>,
       mixed |-> FALSE],
      [ops |-> << Op("intro_text", << 195, 169, 98 >>), Op("intro_i32", 97), Op("cons", 0) >>,
       mixed |-> TRUE],
      [ops |-> << Op("intro_text", << 98, 99, 100, 101 >>), Op("intro_i32", 8364),
                  Op("cons", 0) >>,
       mixed |-> TRUE] }

\* the sizes of the client's buffers
ReadSizes == { 4, 5, 7 }

\* what an unwritten byte of the client's buffer may hold
ReadJunk == { 0, 120, 169 }

InitRead ==
    /\ \E t \in ReadTexts :
          /\ cx = Returned(RunOps(cx_create, t.ops))
          /\ g = [n |-> 0, out |-> << >>, expect |-> Unread(cx),
                  mixed |-> t.mixed, done |-> FALSE, pre |-> cx]
    /\ cx.ecode = "OK"
    /\ ~Aborted(cx)
    /\ p = << >>
    /\ rbuf = << >>
    /\ pcp = "idle"
    /\ res = Op("start", 0)

\* wikrt_read_text(cx, buff, &sz) with sz = max on entry; res.arg is the
\* bytes the call returned
ReadText ==
    /\ g.n < MaxReadSteps
    /\ ~g.done
    /\ ~Aborted(cx) /\ cx.ecode = "OK"
    /\ \E max \in ReadSizes, u \in ReadJunk :
          LET k == wikrt_read_text([cx EXCEPT !.ub = u], max)
          IN /\ cx' = Returned(k)
             /\ res' = Op("read_text", k.buf)
             /\ g' = [g EXCEPT !.n = @ + 1, !.out = @ \o k.buf, !.done = (k.buf = << >>),
                               !.pre = cx]
    /\ UNCHANGED <<p, rbuf, pcp>>

\* the client puts a code point in front of what is left
ReadCons ==
    /\ g.n < MaxReadSteps
    /\ ~g.done /\ g.out = << >>
    /\ ~Aborted(cx) /\ cx.ecode = "OK"
    /\ \E cp \in { 97, 233 } :
          /\ cx' = Returned(RunOps(cx, << Op("intro_i32", cp), Op("cons", 0) >>))
          /\ g' = [g EXCEPT !.n = @ + 1,
                            !.expect = utf8_writecp_unsafe(cp) \o @,
                            !.mixed = @ \/ wikrt_value_is_utf8(cx, Fst(cx, cx.val)),
                            !.pre = cx]
    /\ res' = Op("cons", 0)
    /\ UNCHANGED <<p, rbuf, pcp>>

NextRead ==
    \/ ReadText \/ ReadCons

ReadSpec == InitRead /\ [][NextRead]_vars

----------------------------------------------------------------------------
(* Properties of ReadSpec.                                                 *)

\* the last call was wikrt_read_text and the arena did not fill
ReadDone == res.name = "read_text" /\ cx.ecode # "CXFULL"

\* what the call did is what a lossless reader does: no error, the output
\* is whole code points, the outputs so far and the encoding of the list
\* left on the stack make up the encoding of the text, and a call that
\* returns no byte has left nothing
Lossless ==
    /\ ~Aborted(cx)
    /\ cx.ecode = "OK"
    /\ wikrt_p(cx.val)
    /\ WholeCodePoints(res.arg)
    /\ g.out \o Unread(cx) = g.expect
    /\ res.arg = << >> => g.out = g.expect

\* C28: the outputs of successive wikrt_read_text calls on any text, cells
\* of code points and UTF8 or BINARY chunks in any mixture, with buffers
\* of at least 4 bytes, concatenate to the UTF-8 encoding of the text; each
\* output ends on a code point boundary and the list left on the stack is
\* the unread suffix.
C28_LosslessReader == ReadDone => Lossless

\* the same for the texts that have no cell in front of a UTF8 object
UnmixedLossless == (ReadDone /\ ~g.mixed) => Lossless

\* a split code point was pushed back: the call returned less than its
\* buffer held and the next call returned the rest
UnmixedWitness ==
    /\ ReadDone /\ ~g.mixed
    /\ g.out = g.expect /\ Len(g.expect) > 4
    /\ Len(res.arg) < 4 /\ res.arg # << >>
----------------------------------------------------------------------------
(* Specification WalkSpec: one call of wikrt_text_to_block, step by step   *)
(* as in ParseSpec, on texts with ops, tokens, blocks and text literals,   *)
(* and after a call that returned OK the client copies, drops and          *)
(* collects the block.  The heap walkers run inside the call, where a      *)
(* reservation compacts, and in the calls after it.                        *)

MaxWalkSteps == 2

WalkTexts ==
    { << 118, 119 >>, << 123, 97, 125 >>, << 123, 97, 125, 118 >>, << 118, 123, 97, 97, 125 >>,
      << 123, 97, 200, 125 >>, << 34, 10, 126 >>, << 34, 97, 10, 126 >>,
      << 34, 97, 97, 97, 97, 97, 10, 126 >>, << 91, 118, 93 >>, << 118, 91, 119, 93, 118 >>,
      << 32, 10, 118, 119 >>, << 119, 118, 119, 118, 119 >> }

WalkFills == { 0, 3, 14, 17 }

InitWalk ==
    /\ \E t \in WalkTexts, f \in WalkFills :
          /\ CxText(t, f).ecode = "OK"
          /\ cx = CxText(t, f)
          /\ g = [text |-> t, fill |-> f, e |-> ValReg(CxE(f)), pair |-> TRUE, n |-> 0]
    /\ p = ParseState0
    /\ rbuf = << >>
    /\ pcp = "idle"
    /\ res = Op("text_to_block", "idle")

\* a call on the block the parser returned
WalkCall(name) ==
    /\ pcp = "done"
    /\ res.name = "text_to_block" => res.arg = "OK"
    /\ g.n < MaxWalkSteps
    /\ ~Aborted(cx)
    /\ cx' = Returned(Do(cx, name))
    /\ res' = Op(name, 0)
    /\ g' = [g EXCEPT !.n = @ + 1]
    /\ UNCHANGED <<p, rbuf, pcp>>

WalkCopy == /\ WalkCall("copy")
WalkDrop == /\ WalkCall("drop")
WalkGc   == /\ WalkCall("cx_gc")

NextWalk ==
    \/ Begin \/ ReadChunk \/ Finish \/ StepChar
    \/ WalkCopy \/ WalkDrop \/ WalkGc

WalkSpec == InitWalk /\ [][NextWalk]_vars

----------------------------------------------------------------------------
(* Properties of WalkSpec.                                                 *)

\* the default case of the switch of a walker
WalkerAborts ==
    { "vsize: unrecognized tag", "copy_rs: unrecognized tag", "drop_sv: unrecognized tag" }

\* C29: no walk of wikrt_vsize, wikrt_copy_rs or wikrt_drop_sv over a value
\* the parser and the primitives built reaches the unrecognized-tag abort.
C29_WalkersKnowEveryShape == cx.abort \notin WalkerAborts

\* the same for texts of ops alone, whose blocks hold no token and no text
OpsOnlyWalked ==
    (\A i \in 1..Len(g.text) : g.text[i] \in { 118, 119, 32, 10 })
        => cx.abort \notin WalkerAborts

\* a block of ops alone was parsed, copied and collected
OpsOnlyWitness ==
    /\ \A i \in 1..Len(g.text) : g.text[i] \in { 118, 119, 32, 10 }
    /\ res.name = "cx_gc" /\ g.n = 2 /\ cx.ecode = "OK"
    /\ ~Aborted(cx)
----------------------------------------------------------------------------
(* Sharing.  CellsOf lists the arena cells of everything a value reaches,  *)
(* once for every reference that leads to them: the cell of a pair, the    *)
(* cells of an object and the cells of the buffer its header points to.    *)

\* the cells that hold the n bytes at a
CellRange(a, n) ==
    IF n <= 0 THEN << >>
    ELSE [i \in 1..(((a + n - 1) \div WIKRT_CELLSIZE) - (a \div WIKRT_CELLSIZE) + 1) |->
             (a \div WIKRT_CELLSIZE) + i - 1]

\* a lies in the arena in use
InArena(c, a) == c.mem <= a /\ a < c.mem + cx_size

\* what a reference that leaves the arena counts as: a cell reached twice
Stray == << -1, -1 >>

RECURSIVE CellsOf(_, _, _)
RECURSIVE SlotCells(_, _, _, _)
\* the cells reached from the n slots at a
SlotCells(c, a, n, fuel) ==
    IF n <= 0 THEN << >>
    ELSE IF ~InArena(c, a) THEN Stray
    ELSE CellsOf(c, rd(c, a), fuel) \o SlotCells(c, a + WIKRT_VALSIZE, n - 1, fuel)
\* the cells reached from v; a path longer than fuel counts its last cell
\* twice, and so does a reference to a place outside the arena
CellsOf(c, v, fuel) ==
    LET a   == wikrt_vaddr(v)
        hd  == rd(c, a)
        tg  == LOBYTE(hd)
        nx  == CellsOf(c, rd(c, a + WIKRT_VALSIZE), fuel - 1)
        sz  == rd(c, a + 2 * WIKRT_VALSIZE)
        bf  == rd(c, a + 3 * WIKRT_VALSIZE)
    IN IF wikrt_copy_shallow(v) THEN << >>
       ELSE IF ~InArena(c, a) THEN Stray
       ELSE IF fuel = 0 THEN CellRange(a, WIKRT_CELLSIZE) \o CellRange(a, WIKRT_CELLSIZE)
       ELSE IF ~wikrt_o(v)
       THEN CellRange(a, WIKRT_CELLSIZE) \o CellsOf(c, hd, fuel - 1) \o nx
       ELSE IF tg \in SimpleOtags
       THEN CellRange(a, WIKRT_CELLSIZE) \o nx
       ELSE IF tg = WIKRT_OTAG_SEAL
       THEN CellRange(a, WIKRT_CELLSIZE + (hd \div 256)) \o nx
       ELSE IF tg = WIKRT_OTAG_BINARY
       THEN CellRange(a, 2 * WIKRT_CELLSIZE) \o CellRange(bf, sz) \o nx
       ELSE IF tg = WIKRT_OTAG_ARRAY
       THEN CellRange(a, 2 * WIKRT_CELLSIZE) \o CellRange(bf, sz * WIKRT_VALSIZE)
               \o SlotCells(c, bf, sz, fuel - 1) \o nx
       ELSE IF tg = WIKRT_OTAG_OPTOK
       THEN CellRange(a, WIKRT_VALSIZE + (hd \div 256))
       ELSE IF tg = WIKRT_OTAG_TEXT
       THEN CellRange(a, 2 * WIKRT_CELLSIZE) \o CellRange(bf, sz % 65536) \o nx
       ELSE CellRange(a, WIKRT_CELLSIZE)

\* the cells reached from the root registers
RootCells(c) ==
    CellsOf(c, c.val, 2 * SizeCells) \o CellsOf(c, c.pc, 2 * SizeCells)
       \o CellsOf(c, c.cc, 2 * SizeCells) \o CellsOf(c, c.txn, 2 * SizeCells)

\* no cell is reached twice: the roots denote trees
NoSharing(c) ==
    Cardinality({ RootCells(c)[i] : i \in 1..Len(RootCells(c)) }) = Len(RootCells(c))

----------------------------------------------------------------------------
(* Specification ShareSpec: a client holds a value of one of the kinds the *)
(* runtime has, or a text it parses with wikrt_text_to_block step by step  *)
(* as in ParseSpec, and copies, composes, quotes, unwraps (which expands   *)
(* a chunk into a cell), wraps, reads, collects, drops and swaps.  g.prev  *)
(* is the call before the last.                                            *)

MaxShareSteps == 3

ShareValues ==
    { << I1, I2, AL, INR, INR >>,
      << I1, I2, AL, I1, I2, AL, AL >>,
      << I1 >> \o BlockOps(2, 0, << >>) \o BlockOps(1, 0, << AFF >>),
      << Op("intro_binary", << 200, 98, 99, 100, 101, 102, 103, 104, 105 >>) >>,
      << Op("intro_binary", << 97 >>), Op("cons_binary_chunk", << 98, 99 >>) >>,
      << Op("intro_text", << 97, 195, 169 >>) >>,
      << I1, I2, AL, Op("wrap_seal", << 58, 97 >>) >>,
      << Op("intro_binary", << 97, 98 >>),
         Op("cons_array_chunk", << wikrt_i2v(1), WIKRT_UNIT, wikrt_i2v(2) >>) >> }

ShareTexts ==
    { << 118, 119 >>, << 118, 119, 118, 119, 118 >>, << 123, 97, 125, 118 >>,
      << 34, 97, 10, 126 >>, << 91, 118, 93 >> }

ShareFills == { 0, SizeCells - 10 }

InitShare ==
    /\ \/ /\ \E v \in ShareValues, f \in ShareFills :
                /\ cx = Returned(RunOps(cx_create, FillOps(f) \o v))
                /\ g = [text |-> << >>, fill |-> f, e |-> ValReg(CxE(f)), pair |-> TRUE,
                        n |-> 0, prev |-> "start"]
          /\ pcp = "done"
          /\ res = Op("start", 0)
       \/ /\ \E t \in ShareTexts, f \in ShareFills :
                /\ cx = CxText(t, f)
                /\ g = [text |-> t, fill |-> f, e |-> ValReg(CxE(f)), pair |-> TRUE,
                        n |-> 0, prev |-> "start"]
          /\ pcp = "idle"
          /\ res = Op("text_to_block", "idle")
    /\ cx.ecode = "OK"
    /\ ~Aborted(cx)
    /\ p = ParseState0
    /\ rbuf = << >>

\* a call on the value, or on the block the parser returned
ShareCall(op) ==
    /\ pcp = "done"
    /\ res.name = "text_to_block" => res.arg = "OK"
    /\ g.n < MaxShareSteps
    /\ ~Aborted(cx)
    /\ cx' = Returned(Apply(cx, op))
    /\ res' = op
    /\ g' = [g EXCEPT !.n = @ + 1, !.prev = res.name]
    /\ UNCHANGED <<p, rbuf, pcp>>

ShareCopy    == /\ ShareCall(Op("copy", 0))
ShareCompose == /\ ShareCall(Op("compose", 0))
ShareQuote   == /\ ShareCall(Op("quote", 0))
ShareUnwrap  == /\ ShareCall(Op("unwrap_sum", 0))
ShareWrap    == /\ ShareCall(Op("wrap_sum", "INL"))
ShareGc      == /\ ShareCall(Op("cx_gc", 0))
ShareDrop    == /\ ShareCall(Op("drop", 0))
ShareWswap   == /\ ShareCall(Op("wswap", 0))

\* wikrt_read_text with a buffer of 4 bytes
ShareRead ==
    /\ pcp = "done"
    /\ res.name = "text_to_block" => res.arg = "OK"
    /\ g.n < MaxShareSteps
    /\ ~Aborted(cx)
    /\ cx' = Returned(wikrt_read_text(cx, UTF8_MAX_CP_SIZE))
    /\ res' = Op("read_text", 0)
    /\ g' = [g EXCEPT !.n = @ + 1, !.prev = res.name]
    /\ UNCHANGED <<p, rbuf, pcp>>

NextShare ==
    \/ Begin \/ ReadChunk \/ Finish \/ StepChar
    \/ ShareCopy \/ ShareCompose \/ ShareQuote \/ ShareUnwrap \/ ShareWrap
    \/ ShareGc \/ ShareDrop \/ ShareWswap \/ ShareRead

ShareSpec == InitShare /\ [][NextShare]_vars

----------------------------------------------------------------------------
(* Properties of ShareSpec.                                                *)

\* the cells of s and of t are disjoint
Disjoint(s, t) == \A i \in 1..Len(s) : \A j \in 1..Len(t) : s[i] # t[j]

\* C30: in every state, inside the parse and after every call, no arena
\* cell is reached from the root registers along two paths, and after a
\* copy the cells of the copy are none of the cells of the rest of the
\* stack, its source among them.
C30_NoSharing ==
    ~Aborted(cx) =>
        /\ NoSharing(cx)
        /\ (res.name = "copy" /\ wikrt_p(cx.val)) =>
               Disjoint(CellsOf(cx, Fst(cx, cx.val), 2 * SizeCells),
                        CellsOf(cx, Snd(cx, cx.val), 2 * SizeCells))

\* C30 happens: a chunk was expanded into a cell by unwrap_sum and the
\* list, wrapped again, was copied: copy and source hold three cells and
\* more each
C30_Witness ==
    /\ res.name = "copy" /\ g.prev = "wrap_sum" /\ cx.ecode = "OK"
    /\ ~Aborted(cx)
    /\ wikrt_p(cx.val) /\ wikrt_p(Snd(cx, cx.val))
    /\ Len(CellsOf(cx, Fst(cx, cx.val), 2 * SizeCells)) >= 3
    /\ ValOf(cx, Fst(cx, cx.val)) = ValOf(cx, Fst(cx, Snd(cx, cx.val)))
    /\ wikrt_pl(Fst(cx, cx.val))

============================================================================
